---- MODULE Spec2Model ----
(***************************************************************************)
(* Minimap core: the record / collection / set layer (trait Remote) and    *)
(* the entity layer (Workspace, Project, Ticket) built on it.              *)
(*                                                                         *)
(* The store is the `State` struct of the in-memory backend: a counter of  *)
(* issued ids, the head of every collection and the record map.  A commit  *)
(* carries the outcome of its push, as in GitRecordBuilder::commit: only   *)
(* a push reported as successful moves the head.                           *)
(***************************************************************************)
EXTENDS Integers, Sequences, FiniteSets

VARIABLES
    state,      \* State {total_ids, heads, records} of the backend
    last,       \* the last call made on the handle: operation, arguments, result
    committed,  \* per collection, the ids returned by successful commits, in call order
    projects,   \* the project handles (slugs) the caller holds
    tickets,    \* the ticket handles the caller holds
    issued,     \* per project, one entry per create_ticket call that advanced the
                \* counter: the handle it returned, NoHandle when it then failed
    shadow,     \* per ticket slug, what the caller last wrote to it
    registry,   \* the origins map of the caller's DependencyRegistry
    git         \* the Git repositories (origin, local ones) and the handles on them

vars == <<state, last, committed, projects, tickets, issued, shadow, registry, git>>

(***************************************************************************)
(* Bounds                                                                  *)
(***************************************************************************)
MaxRecords == 4         \* records in the store (set-layer specification)
MaxWsRecords == 6       \* records in the store (workspace specification)
MaxProjectOps == 3      \* records in meta/projects
MaxCounter == 3         \* records in one project's ticket_counter
MaxFieldWrites == 1     \* records in one title / state / comment collection
MaxLogRecords == 3      \* records in the store (record-builder specification)
MaxTicketWrites == 2    \* records written to the tickets (ticket specification)
MaxDepWrites == 4       \* records written after the set-up (dependency specification)

Messages == {"a", "b"}
Collections == {"coll"}
LogCollections == {"log"}
ProjectSlugs == {"P", "Q-7"}
Titles == {"hello"}
Comments == {"x", "y"}
PushOutcomes == {"ok", "rejected", "unreported"}

(***************************************************************************)
(* Results.  tag is "Ok", "Err" (inner error carrying a record),           *)
(* "ErrSome", "ErrNone" (inner Option error) or the name of an Error       *)
(* variant; rec and aux are record ids (0: none).                          *)
(***************************************************************************)
NoHandle == [slug |-> "", id |-> 0, path |-> ""]

Res(tag, rec, aux) == [tag |-> tag, rec |-> rec, aux |-> aux, handle |-> NoHandle]

Error(kind) == Res(kind, 0, 0)

ErrorKinds == {"NotPushed", "PushFailed", "NotFound", "Malformed",
               "MalformedProjectSlug", "MalformedOrigin"}

Out(st, res, commits) == [st |-> st, res |-> res, commits |-> commits]

(***************************************************************************)
(* Maps with a growing key set                                             *)
(***************************************************************************)
EmptyMap == [k \in {} |-> 0]

Put(f, k, v) == [x \in (DOMAIN f) \cup {k} |-> IF x = k THEN v ELSE f[x]]

Get(f, k, default) == IF k \in DOMAIN f THEN f[k] ELSE default

Reverse(s) == [i \in 1..Len(s) |-> s[Len(s) + 1 - i]]

(***************************************************************************)
(* Backend                                                                 *)
(***************************************************************************)
EmptyState == [total_ids |-> 0, heads |-> EmptyMap, records |-> <<>>]

\* State::next_id: the id is a hash of the counter, one id per counter value.
next_id(st) == st.total_ids + 1

\* The builder's attachment calls applied over the parent's map
\* (Some(id): upsert, None: remove; NoBlob stands for None).
NoBlob == 0

\* An overlay that starts from an empty map instead of the previous head's.
OverlayOnEmpty(base, changes) ==
    [n \in {m \in DOMAIN changes : changes[m] # NoBlob} |-> changes[n]]

Overlay(base, changes) ==
    LET upserts == {n \in DOMAIN changes : changes[n] # NoBlob}
        keep == ((DOMAIN base) \ (DOMAIN changes)) \cup upserts
    IN [n \in keep |-> IF n \in upserts THEN changes[n] ELSE base[n]]

\* A violation of the parent chain: the parent is the record created just
\* before, whatever its collection.
CommitGlobalParent(st, collection, message, op, attachments, outcome) ==
    IF outcome = "unreported" THEN Out(st, Error("NotPushed"), <<>>)
    ELSE IF outcome # "ok" THEN Out(st, Error("PushFailed"), <<>>)
    ELSE
      LET id == next_id(st)
          parent_id == st.total_ids
          base == IF Get(st.heads, collection, 0) \in DOMAIN st.records
                    THEN st.records[st.heads[collection]].attachments ELSE EmptyMap
          record == [id |-> id, parent |-> parent_id, message |-> message,
                     op |-> op, attachments |-> Overlay(base, attachments)]
      IN Out([total_ids |-> id,
              heads |-> Put(st.heads, collection, id),
              records |-> Append(st.records, record)],
             Res("Ok", id, 0), <<<<collection, id>>>>)

\* A commit that rewrites the head record in place (an amend) before it
\* appends the new one.
CommitAmendsHead(st, collection, message, op, attachments, outcome) ==
    IF outcome = "unreported" THEN Out(st, Error("NotPushed"), <<>>)
    ELSE IF outcome # "ok" THEN Out(st, Error("PushFailed"), <<>>)
    ELSE
      LET id == next_id(st)
          parent_id == Get(st.heads, collection, 0)
          base == IF parent_id \in DOMAIN st.records
                    THEN st.records[parent_id].attachments ELSE EmptyMap
          record == [id |-> id, parent |-> parent_id, message |-> message,
                     op |-> op, attachments |-> Overlay(base, attachments)]
          amended == IF parent_id \in DOMAIN st.records
                       THEN [st.records EXCEPT ![parent_id].attachments = record.attachments,
                                               ![parent_id].message = message]
                     ELSE st.records
      IN Out([total_ids |-> id,
              heads |-> Put(st.heads, collection, id),
              records |-> Append(amended, record)],
             Res("Ok", id, 0), <<<<collection, id>>>>)

\* RecordBuilder::commit.  The record is built on the current head of the
\* collection; the head moves only when the push of the ref was reported as
\* successful, otherwise NotPushed / PushFailed and nothing changes.
Commit(st, collection, message, op, attachments, outcome) ==
    IF outcome = "unreported" THEN Out(st, Error("NotPushed"), <<>>)
    ELSE IF outcome # "ok" THEN Out(st, Error("PushFailed"), <<>>)
    ELSE
      LET id == next_id(st)
          parent_id == Get(st.heads, collection, 0)
          base == IF parent_id \in DOMAIN st.records
                    THEN st.records[parent_id].attachments ELSE EmptyMap
          record == [id |-> id, parent |-> parent_id, message |-> message,
                     op |-> op, attachments |-> Overlay(base, attachments)]
      IN Out([total_ids |-> id,
              heads |-> Put(st.heads, collection, id),
              records |-> Append(st.records, record)],
             Res("Ok", id, 0), <<<<collection, id>>>>)

\* MemoryIterator::next, iterated: the head, then parent after parent.
RECURSIVE WalkFrom(_, _)
WalkFrom(st, id) ==
    IF id \notin DOMAIN st.records THEN <<>>
    ELSE <<st.records[id]>> \o WalkFrom(st, st.records[id].parent)

\* A walk that yields the records oldest first.
WalkOldestFirst(st, collection) ==
    LET w == WalkFrom(st, Get(st.heads, collection, 0))
    IN [i \in 1..Len(w) |-> w[Len(w) + 1 - i]]

\* Remote::walk: newest first; empty when the collection has no head.
Walk(st, collection) == WalkFrom(st, Get(st.heads, collection, 0))

\* Remote::latest
Latest(st, collection) ==
    LET w == Walk(st, collection) IN IF w = <<>> THEN 0 ELSE w[1].id

\* Remote::get_record: Some(record) for an id the store holds, else None.
NoRecord == [id |-> 0, parent |-> 0, message |-> "", op |-> "None", attachments |-> EmptyMap]

get_record(st, id) ==
    IF id \in DOMAIN st.records THEN [tag |-> "Some", record |-> st.records[id]]
    ELSE [tag |-> "None", record |-> NoRecord]

\* Record::attachment: the bytes stored under the name (NoBlob: None).  An
\* attachment id is the hash of its bytes and the pool never drops an
\* entry, so the id stands for the bytes.
Record_attachment(st, id, name) ==
    IF name \in DOMAIN st.records[id].attachments
      THEN st.records[id].attachments[name] ELSE NoBlob

\* Remote::walk_set: the walk, each record with its operation.
WalkSet(st, collection) == Walk(st, collection)

set_add_unchecked(st, collection, message, outcome) ==
    Commit(st, collection, message, "Add", EmptyMap, outcome)

set_del_unchecked(st, collection, message, outcome) ==
    Commit(st, collection, message, "Del", EmptyMap, outcome)

(***************************************************************************)
(* IndexMap<String, Option<Record>>: entries in insertion order;           *)
(* remove is swap_remove (the last entry takes the removed entry's place). *)
(***************************************************************************)
RECURSIVE IndexOf(_, _, _)
IndexOf(map, key, i) ==
    IF i > Len(map) THEN 0
    ELSE IF map[i].key = key THEN i
    ELSE IndexOf(map, key, i + 1)

MapInsert(map, key, val) ==
    LET i == IndexOf(map, key, 1) IN
    IF i = 0 THEN Append(map, [key |-> key, val |-> val])
    ELSE [map EXCEPT ![i] = [key |-> key, val |-> val]]

MapRemove(map, key) ==
    LET i == IndexOf(map, key, 1)
        n == Len(map)
    IN IF i = 0 THEN map
       ELSE SubSeq([map EXCEPT ![i] = map[n]], 1, n - 1)

(***************************************************************************)
(* Set layer (default methods of trait Remote)                             *)
(***************************************************************************)
\* A scan that stops at the first record of the message only when it is an
\* Add: a tombstone is skipped and an older Add found behind it.
RECURSIVE SetFindSkipsTombstone(_, _, _)
SetFindSkipsTombstone(w, message, i) ==
    IF i > Len(w) THEN Res("ErrNone", 0, 0)
    ELSE IF w[i].op = "None" THEN Error("Malformed")
    ELSE IF w[i].message = message /\ w[i].op = "Add" THEN Res("Ok", w[i].id, 0)
    ELSE SetFindSkipsTombstone(w, message, i + 1)

\* The loop of Remote::set_find over walk_set, from position i.
RECURSIVE SetFindScan(_, _, _)
SetFindScan(w, message, i) ==
    IF i > Len(w) THEN Res("ErrNone", 0, 0)
    ELSE IF w[i].op = "None" THEN Error("Malformed")
    ELSE IF w[i].message = message
      THEN IF w[i].op = "Add" THEN Res("Ok", w[i].id, 0)
           ELSE Res("ErrSome", w[i].id, 0)
    ELSE SetFindScan(w, message, i + 1)

\* Remote::set_find
set_find(st, collection, message) ==
    SetFindScan(WalkSet(st, collection), message, 1)

\* Remote::set_add writing without the membership check.
SetAddNoCheck(st, collection, message, outcome) ==
    LET c == set_add_unchecked(st, collection, message, outcome) IN
    IF c.res.tag = "Ok" THEN Out(c.st, Res("Ok", c.res.rec, 0), c.commits) ELSE c

\* Remote::set_add taking a tombstone for a settled message: it writes only
\* when the message has no record at all.
SetAddStopsAtTombstone(st, collection, message, outcome) ==
    LET f == set_find(st, collection, message) IN
    IF f.tag \in ErrorKinds THEN Out(st, f, <<>>)
    ELSE IF f.tag \in {"Ok", "ErrSome"} THEN Out(st, Res("Err", f.rec, 0), <<>>)
    ELSE LET c == set_add_unchecked(st, collection, message, outcome) IN
         IF c.res.tag = "Ok" THEN Out(c.st, Res("Ok", c.res.rec, f.rec), c.commits)
         ELSE c

\* Remote::set_add
set_add(st, collection, message, outcome) ==
    LET f == set_find(st, collection, message) IN
    IF f.tag \in ErrorKinds THEN Out(st, f, <<>>)
    ELSE IF f.tag = "Ok" THEN Out(st, Res("Err", f.rec, 0), <<>>)
    ELSE LET c == set_add_unchecked(st, collection, message, outcome) IN
         IF c.res.tag = "Ok" THEN Out(c.st, Res("Ok", c.res.rec, f.rec), c.commits)
         ELSE c

\* Remote::set_del writing the Del record whatever set_find says.
SetDelAlwaysWrites(st, collection, message, outcome) ==
    LET f == set_find(st, collection, message)
        c == set_del_unchecked(st, collection, message, outcome)
    IN IF f.tag \in ErrorKinds THEN Out(st, f, <<>>)
       ELSE IF c.res.tag # "Ok" THEN c
       ELSE IF f.tag = "Ok" THEN Out(c.st, Res("Ok", c.res.rec, f.rec), c.commits)
       ELSE Out(c.st, f, c.commits)

\* Remote::set_del
set_del(st, collection, message, outcome) ==
    LET f == set_find(st, collection, message) IN
    IF f.tag \in ErrorKinds THEN Out(st, f, <<>>)
    ELSE IF f.tag = "Ok"
      THEN LET c == set_del_unchecked(st, collection, message, outcome) IN
           IF c.res.tag = "Ok" THEN Out(c.st, Res("Ok", c.res.rec, f.rec), c.commits)
           ELSE c
    ELSE Out(st, f, <<>>)

\* The loop of Remote::set_get_all: the map after the records w[i..].
RECURSIVE SetGetAllScan(_, _, _)
SetGetAllScan(w, i, map) ==
    IF i > Len(w) THEN [tag |-> "Ok", map |-> map]
    ELSE IF w[i].op = "None" THEN [tag |-> "Malformed", map |-> map]
    ELSE LET k == IndexOf(map, w[i].message, 1) IN
         IF w[i].op = "Add"
           THEN IF k # 0 /\ map[k].val = 0
                  THEN SetGetAllScan(w, i + 1, MapRemove(map, w[i].message))
                ELSE IF k # 0 THEN SetGetAllScan(w, i + 1, map)
                ELSE SetGetAllScan(w, i + 1, MapInsert(map, w[i].message, w[i].id))
         ELSE IF k = 0
                THEN SetGetAllScan(w, i + 1, MapInsert(map, w[i].message, 0))
              ELSE SetGetAllScan(w, i + 1, map)

\* The entries holding a record, in map order.
RECURSIVE SomeValues(_, _)
SomeValues(map, i) ==
    IF i > Len(map) THEN <<>>
    ELSE IF map[i].val = 0 THEN SomeValues(map, i + 1)
    ELSE <<map[i].val>> \o SomeValues(map, i + 1)

\* Remote::set_get_all: the ids of the returned IndexSet, in its order.
set_get_all(st, collection) ==
    LET r == SetGetAllScan(WalkSet(st, collection), 1, <<>>) IN
    [tag |-> r.tag,
     items |-> IF r.tag = "Ok" THEN SomeValues(Reverse(r.map), 1) ELSE <<>>]

\* An iterator that forgets what it has seen: every Add record is yielded.
RECURSIVE SetWalkNoSeen(_, _, _)
SetWalkNoSeen(w, i, seen) ==
    IF i > Len(w) THEN [tag |-> "Ok", items |-> <<>>]
    ELSE IF w[i].op = "None" THEN [tag |-> "Malformed", items |-> <<>>]
    ELSE LET rest == SetWalkNoSeen(w, i + 1, seen) IN
         IF w[i].op = "Add"
           THEN [tag |-> rest.tag, items |-> <<w[i].id>> \o rest.items]
         ELSE rest

\* SetWalkIterator::next, iterated to the end: the records yielded from
\* position i on, with the messages seen so far.
RECURSIVE SetWalkScan(_, _, _)
SetWalkScan(w, i, seen) ==
    IF i > Len(w) THEN [tag |-> "Ok", items |-> <<>>]
    ELSE IF w[i].op = "None" THEN [tag |-> "Malformed", items |-> <<>>]
    ELSE IF w[i].message \in seen THEN SetWalkScan(w, i + 1, seen)
    ELSE LET rest == SetWalkScan(w, i + 1, seen \cup {w[i].message}) IN
         IF w[i].op = "Add"
           THEN [tag |-> rest.tag, items |-> <<w[i].id>> \o rest.items]
         ELSE rest

\* Remote::walk_set_present, collected.
walk_set_present(st, collection) == SetWalkScan(WalkSet(st, collection), 1, {})

\* Remote::set_get_all_reverse
set_get_all_reverse(st, collection) == walk_set_present(st, collection)

(***************************************************************************)
(* Strings                                                                 *)
(***************************************************************************)
Char(s, i) == SubSeq(s, i, i)

Contains(s, chars) == \E i \in 1..Len(s) : Char(s, i) \in chars

\* char::is_whitespace, on the characters used here.
Whitespace == {" ", "\t", "\n", "\r"}

Digits == <<"0", "1", "2", "3", "4", "5", "6", "7", "8", "9">>

\* u64::to_string: decimal, no sign, no leading zero.
RECURSIVE to_string(_)
to_string(n) ==
    IF n < 10 THEN Digits[n + 1]
    ELSE to_string(n \div 10) \o Digits[(n % 10) + 1]

DigitValue(ch) == (CHOOSE d \in 1..10 : Digits[d] = ch) - 1

IsDigit(ch) == \E d \in 1..10 : Digits[d] = ch

RECURSIVE DigitsValue(_, _, _)
DigitsValue(s, i, acc) ==
    IF i > Len(s) THEN acc
    ELSE DigitsValue(s, i + 1, acc * 10 + DigitValue(Char(s, i)))

ParseError == -1

\* str::parse::<u64>: an optional '+', then one or more decimal digits;
\* anything else is an error.  (The strings parsed here have a few digits,
\* far from the 2^64 limit.)
ParseU64(s) ==
    LET body == IF Len(s) > 0 /\ Char(s, 1) = "+" THEN SubSeq(s, 2, Len(s)) ELSE s IN
    IF Len(body) = 0 \/ \E i \in 1..Len(body) : ~IsDigit(Char(body, i))
      THEN ParseError
    ELSE DigitsValue(body, 1, 0)

\* str::rsplit_once: the parts before and after the last occurrence.
RSplitOnce(s, ch) ==
    IF ~Contains(s, {ch}) THEN [found |-> FALSE, left |-> "", right |-> ""]
    ELSE LET i == CHOOSE k \in 1..Len(s) :
                    /\ Char(s, k) = ch
                    /\ \A j \in (k + 1)..Len(s) : Char(s, j) # ch
         IN [found |-> TRUE, left |-> SubSeq(s, 1, i - 1),
             right |-> SubSeq(s, i + 1, Len(s))]

\* A split at the last occurrence where the first is meant.
SplitAtLast(s, ch) ==
    IF ~Contains(s, {ch}) THEN [found |-> FALSE, left |-> "", right |-> ""]
    ELSE LET i == CHOOSE k \in 1..Len(s) :
                    /\ Char(s, k) = ch
                    /\ \A j \in (k + 1)..Len(s) : Char(s, j) # ch
         IN [found |-> TRUE, left |-> SubSeq(s, 1, i - 1),
             right |-> SubSeq(s, i + 1, Len(s))]

\* str::split_once: the parts before and after the first occurrence.
SplitOnce(s, ch) ==
    IF ~Contains(s, {ch}) THEN [found |-> FALSE, left |-> "", right |-> ""]
    ELSE LET i == CHOOSE k \in 1..Len(s) :
                    /\ Char(s, k) = ch
                    /\ \A j \in 1..(k - 1) : Char(s, j) # ch
         IN [found |-> TRUE, left |-> SubSeq(s, 1, i - 1),
             right |-> SubSeq(s, i + 1, Len(s))]

(***************************************************************************)
(* Workspace, Project, Ticket                                              *)
(***************************************************************************)
Handle(h) == [tag |-> "Ok", rec |-> 0, aux |-> 0, handle |-> h]

\* struct Project, as built by Workspace::project and create_project.
Project(slug) ==
    [slug |-> slug, meta_path |-> "meta/project/" \o slug, path |-> "project/" \o slug]

\* A ticket slug formatted without the separator.
TicketSlugNoDash(project, id) ==
    [slug |-> project.slug \o to_string(id), id |-> id,
     path |-> project.path \o "/ticket/" \o to_string(id)]

\* A ticket path that leaves out the ticket's id.
TicketPathOfProject(project, id) ==
    [slug |-> project.slug \o "-" \o to_string(id), id |-> id,
     path |-> project.path \o "/ticket"]

\* struct Ticket, as built by Project::create_ticket and Project::ticket.
Ticket(project, id) ==
    [slug |-> project.slug \o "-" \o to_string(id), id |-> id,
     path |-> project.path \o "/ticket/" \o to_string(id)]

validate_project_slug(slug) ==
    IF Contains(slug, {"/"}) \/ Contains(slug, Whitespace)
      THEN Error("MalformedProjectSlug") ELSE Res("Ok", 0, 0)

\* A lookup that hands out the handle without reading meta/projects.
WorkspaceProjectNoCheck(st, slug) == Handle(Project(slug))

\* Workspace::project
Workspace_project(st, slug) ==
    LET f == set_find(st, "meta/projects", slug) IN
    IF f.tag \in ErrorKinds THEN f
    ELSE IF f.tag = "Ok" THEN Handle(Project(slug))
    ELSE Error("NotFound")

\* A create_project that adds the slug first and validates it afterwards.
CreateProjectValidateLate(st, slug, outcome) ==
    LET a == set_add(st, "meta/projects", slug, outcome) IN
    IF a.res.tag \in ErrorKinds \/ a.res.tag = "Err" THEN a
    ELSE IF validate_project_slug(slug).tag # "Ok"
      THEN Out(a.st, validate_project_slug(slug), a.commits)
    ELSE Out(a.st, Handle(Project(slug)), a.commits)

\* Workspace::name
Workspace_name(st) == Latest(st, "meta/workspace/name")

\* A setter that returns the current record when it already carries the name.
SetNameIfChanged(st, name, outcome) ==
    LET id == Latest(st, "meta/workspace/name") IN
    IF id # 0 /\ st.records[id].message = name THEN Out(st, Res("Ok", id, 0), <<>>)
    ELSE Commit(st, "meta/workspace/name", name, "None", EmptyMap, outcome)

\* Workspace::set_name
Workspace_set_name(st, name, outcome) ==
    Commit(st, "meta/workspace/name", name, "None", EmptyMap, outcome)

\* Workspace::description
Workspace_description(st) == Latest(st, "meta/workspace/description")

\* Workspace::set_description
Workspace_set_description(st, description, outcome) ==
    Commit(st, "meta/workspace/description", description, "None", EmptyMap, outcome)

\* Workspace::create_project
Workspace_create_project(st, slug, outcome) ==
    IF validate_project_slug(slug).tag # "Ok"
      THEN Out(st, validate_project_slug(slug), <<>>)
    ELSE LET a == set_add(st, "meta/projects", slug, outcome) IN
         IF a.res.tag = "Ok" THEN Out(a.st, Handle(Project(slug)), a.commits)
         ELSE a

\* A deletion that writes the Del record without looking at the set.
DeleteProjectUnchecked(st, slug, outcome) ==
    LET a == set_del_unchecked(st, "meta/projects", slug, outcome) IN
    IF a.res.tag = "Ok" THEN Out(a.st, Res("Ok", a.res.rec, 0), a.commits)
    ELSE a

\* Workspace::delete_project
Workspace_delete_project(st, slug, outcome) ==
    LET a == set_del(st, "meta/projects", slug, outcome) IN
    IF a.res.tag = "Ok" THEN Out(a.st, Res("Ok", a.res.rec, 0), a.commits)
    ELSE a

\* Project::create_project: the project is added through the workspace, then
\* the parent's slug is committed to the new project's parent collection.
\* A sub-project creation that writes the parent record before it knows
\* whether the project was created.
CreateSubProjectParentFirst(st, parent, slug, o1, o2) ==
    LET c == Commit(st, Project(slug).meta_path \o "/parent", parent.slug,
                    "None", EmptyMap, o1)
        w == Workspace_create_project(c.st, slug, o2)
    IN IF c.res.tag # "Ok" THEN c
       ELSE IF w.res.tag \in ErrorKinds \/ w.res.tag = "Err"
         THEN Out(w.st, w.res, c.commits \o w.commits)
       ELSE Out(w.st, Handle(Project(slug)), c.commits \o w.commits)

\* Project::name
Project_name(st, project) == Latest(st, project.meta_path \o "/name")

\* Project::set_name
Project_set_name(st, project, name, outcome) ==
    Commit(st, project.meta_path \o "/name", name, "None", EmptyMap, outcome)

\* Project::description
Project_description(st, project) == Latest(st, project.meta_path \o "/description")

\* Project::set_description
Project_set_description(st, project, description, outcome) ==
    Commit(st, project.meta_path \o "/description", description, "None", EmptyMap, outcome)

Project_create_project(st, parent, slug, o1, o2) ==
    LET w == Workspace_create_project(st, slug, o1)
        c == Commit(w.st, Project(slug).meta_path \o "/parent", parent.slug,
                    "None", EmptyMap, o2)
    IN IF w.res.tag \in ErrorKinds \/ w.res.tag = "Err" THEN w
       ELSE IF c.res.tag # "Ok" THEN Out(c.st, c.res, w.commits)
       ELSE Out(c.st, Handle(Project(slug)), w.commits \o c.commits)

\* Project::parent: the handle of the parent project, or None.
Project_parent(st, project) ==
    LET id == Latest(st, project.meta_path \o "/parent") IN
    IF id = 0 THEN Res("None", 0, 0)
    ELSE Workspace_project(st, st.records[id].message)

\* A lookup that builds the ticket handle without reading the tickets set.
ProjectTicketNoCheck(st, project, id) == Handle(Ticket(project, id))

\* Project::ticket
Project_ticket(st, project, id) ==
    LET f == set_find(st, project.path \o "/tickets", to_string(id)) IN
    IF f.tag \in ErrorKinds THEN f
    ELSE IF f.tag = "Ok" THEN Handle(Ticket(project, id))
    ELSE Error("NotFound")

\* A lookup that splits the slug at its first '-'.
WorkspaceTicketSplitFirst(st, slug) ==
    LET parts == SplitOnce(slug, "-") IN
    IF ~parts.found THEN Error("Malformed")
    ELSE LET project == Workspace_project(st, parts.left) IN
         IF project.tag # "Ok" THEN project
         ELSE IF ParseU64(parts.right) = ParseError THEN Error("Malformed")
         ELSE Project_ticket(st, project.handle, ParseU64(parts.right))

\* Workspace::ticket
Workspace_ticket(st, slug) ==
    LET parts == RSplitOnce(slug, "-") IN
    IF ~parts.found THEN Error("Malformed")
    ELSE LET project == Workspace_project(st, parts.left) IN
         IF project.tag # "Ok" THEN project
         ELSE IF ParseU64(parts.right) = ParseError THEN Error("Malformed")
         ELSE Project_ticket(st, project.handle, ParseU64(parts.right))

\* The ticket counter read by Project::create_ticket: the parsed message of
\* the latest record, 0 without a record, ParseError when it does not parse.
TicketCounter(st, project) ==
    LET id == Latest(st, project.meta_path \o "/ticket_counter") IN
    IF id = 0 THEN 0 ELSE ParseU64(st.records[id].message)

\* A create_ticket that commits the counter it read, without the increment.
CreateTicketNoIncrement(st, project, o1, o2) ==
    LET ticket_counter == TicketCounter(st, project)
        ticket_id == ticket_counter
        c == Commit(st, project.meta_path \o "/ticket_counter", to_string(ticket_id),
                    "None", EmptyMap, o1)
        a == set_add(c.st, project.path \o "/tickets", to_string(ticket_id), o2)
    IN IF ticket_counter = ParseError THEN Out(st, Error("Malformed"), <<>>)
       ELSE IF c.res.tag # "Ok" THEN c
       ELSE IF a.res.tag \in ErrorKinds THEN Out(a.st, a.res, c.commits)
       ELSE IF a.res.tag = "Err" THEN Out(a.st, Error("Malformed"), c.commits)
       ELSE Out(a.st, Handle(Ticket(project, ticket_id)), c.commits \o a.commits)

\* A create_ticket that adds to the tickets set first and commits the
\* counter second.
CreateTicketSetFirst(st, project, o1, o2) ==
    LET ticket_counter == TicketCounter(st, project)
        ticket_id == ticket_counter + 1
        a == set_add(st, project.path \o "/tickets", to_string(ticket_id), o1)
        c == Commit(a.st, project.meta_path \o "/ticket_counter", to_string(ticket_id),
                    "None", EmptyMap, o2)
    IN IF ticket_counter = ParseError THEN Out(st, Error("Malformed"), <<>>)
       ELSE IF a.res.tag \in ErrorKinds THEN a
       ELSE IF a.res.tag = "Err" THEN Out(a.st, Error("Malformed"), <<>>)
       ELSE IF c.res.tag # "Ok" THEN Out(c.st, c.res, a.commits)
       ELSE Out(c.st, Handle(Ticket(project, ticket_id)), a.commits \o c.commits)

\* Project::create_ticket; o1 is the outcome of the counter push, o2 of the
\* tickets push.
Project_create_ticket(st, project, o1, o2) ==
    LET ticket_counter == TicketCounter(st, project)
        ticket_id == ticket_counter + 1
        c == Commit(st, project.meta_path \o "/ticket_counter", to_string(ticket_id),
                    "None", EmptyMap, o1)
        a == set_add(c.st, project.path \o "/tickets", to_string(ticket_id), o2)
    IN IF ticket_counter = ParseError THEN Out(st, Error("Malformed"), <<>>)
       ELSE IF c.res.tag # "Ok" THEN c
       ELSE IF a.res.tag \in ErrorKinds THEN Out(a.st, a.res, c.commits)
       ELSE IF a.res.tag = "Err" THEN Out(a.st, Error("Malformed"), c.commits)
       ELSE Out(a.st, Handle(Ticket(project, ticket_id)), c.commits \o a.commits)

\* Ticket::title
Ticket_title(st, ticket) == Latest(st, ticket.path \o "/title")

\* Ticket::set_title
Ticket_set_title(st, ticket, name, outcome) ==
    Commit(st, ticket.path \o "/title", name, "None", EmptyMap, outcome)

\* Ticket::comments
Ticket_comments(st, ticket) == Walk(st, ticket.path \o "/comment")

\* Ticket::add_comment
Ticket_add_comment(st, ticket, comment, outcome) ==
    Commit(st, ticket.path \o "/comment", comment, "None", EmptyMap, outcome)

\* A state read that takes every message but "closed" for Open.
TicketStateLenient(st, ticket) ==
    LET id == Latest(st, ticket.path \o "/state") IN
    IF id = 0 THEN [tag |-> "Ok", state |-> "Open", rec |-> 0]
    ELSE IF st.records[id].message = "closed"
      THEN [tag |-> "Ok", state |-> "Closed", rec |-> id]
    ELSE [tag |-> "Ok", state |-> "Open", rec |-> id]

\* Ticket::state: the state and the id of its record (0: None).
Ticket_state(st, ticket) ==
    LET id == Latest(st, ticket.path \o "/state") IN
    IF id = 0 THEN [tag |-> "Ok", state |-> "Open", rec |-> 0]
    ELSE IF st.records[id].message = "open" THEN [tag |-> "Ok", state |-> "Open", rec |-> id]
    ELSE IF st.records[id].message = "closed"
      THEN [tag |-> "Ok", state |-> "Closed", rec |-> id]
    ELSE [tag |-> "Malformed", state |-> "", rec |-> 0]

\* Ticket::is_open
Ticket_is_open(st, ticket) ==
    LET s == Ticket_state(st, ticket) IN
    [tag |-> s.tag, val |-> s.tag = "Ok" /\ s.state = "Open"]

\* Ticket::is_closed
Ticket_is_closed(st, ticket) ==
    LET s == Ticket_state(st, ticket) IN
    [tag |-> s.tag, val |-> s.tag = "Ok" /\ s.state = "Closed"]

\* Ticket::set_state
Ticket_set_state(st, ticket, ticket_state, outcome) ==
    Commit(st, ticket.path \o "/state",
           IF ticket_state = "Open" THEN "open" ELSE "closed",
           "None", EmptyMap, outcome)

\* Ticket::upsert_attachment
Ticket_upsert_attachment(st, ticket, name, data, outcome) ==
    Commit(st, ticket.path \o "/attachment", "+" \o name, "None",
           [n \in {name} |-> data], outcome)

\* Ticket::remote_attachment (the removal)
Ticket_remote_attachment(st, ticket, name, outcome) ==
    Commit(st, ticket.path \o "/attachment", "-" \o name, "None",
           [n \in {name} |-> NoBlob], outcome)

Backends == {"memory", "git"}

\* GitRecord::attachment: the blob at the path of the record's tree;
\* Tree::get_path fails for a path the tree does not hold, and the error
\* is returned.
GitRecord_attachment(st, id, name) ==
    IF name \in DOMAIN st.records[id].attachments
      THEN [tag |-> "Ok", data |-> st.records[id].attachments[name]]
    ELSE [tag |-> "Git", data |-> NoBlob]

\* MemoryRecordRef::attachment, as a result.
MemoryRecord_attachment(st, id, name) ==
    [tag |-> "Ok", data |-> Record_attachment(st, id, name)]

\* Ticket::attachment on either backend: None (NoBlob) without a record,
\* else the latest record's attachment.
Ticket_attachment(st, ticket, name, backend) ==
    LET id == Latest(st, ticket.path \o "/attachment") IN
    IF id = 0 THEN [tag |-> "Ok", data |-> NoBlob]
    ELSE IF backend = "git" THEN GitRecord_attachment(st, id, name)
    ELSE MemoryRecord_attachment(st, id, name)

\* An error that carries a string, as Error::MalformedOrigin(origin) does.
ErrorWith(kind, what) ==
    [tag |-> kind, rec |-> 0, aux |-> 0, handle |-> NoHandle, what |-> what]

\* A validation that takes every origin.
ValidateOriginAny(origin) == Res("Ok", 0, 0)

validate_origin(origin) ==
    IF Contains(origin, {"@"}) THEN ErrorWith("MalformedOrigin", origin)
    ELSE Res("Ok", 0, 0)

\* The set message of a dependency: format!("{}@{}", origin, endpoint).
DepMessage(origin, endpoint) == origin \o "@" \o endpoint

\* Ticket::add_dependency: the new record, or the existing one.
Ticket_add_dependency(st, ticket, origin, endpoint, outcome) ==
    IF validate_origin(origin).tag # "Ok" THEN Out(st, validate_origin(origin), <<>>)
    ELSE LET a == set_add(st, ticket.path \o "/dependencies",
                          DepMessage(origin, endpoint), outcome)
         IN IF a.res.tag \in {"Ok", "Err"} THEN Out(a.st, Res("Ok", a.res.rec, 0), a.commits)
            ELSE a

\* A removal that answers with the tombstone it found instead of None.
RemoveDependencyAnswersFound(st, ticket, origin, endpoint, outcome) ==
    IF validate_origin(origin).tag # "Ok" THEN Out(st, validate_origin(origin), <<>>)
    ELSE LET d == set_del(st, ticket.path \o "/dependencies",
                          DepMessage(origin, endpoint), outcome)
         IN IF d.res.tag \in {"Ok", "ErrSome", "ErrNone"}
              THEN Out(d.st, Res("Ok", d.res.rec, 0), d.commits)
            ELSE d

\* Ticket::remove_dependency: Some(the removal record), or None (rec 0)
\* when the pair is not present.
Ticket_remove_dependency(st, ticket, origin, endpoint, outcome) ==
    IF validate_origin(origin).tag # "Ok" THEN Out(st, validate_origin(origin), <<>>)
    ELSE LET d == set_del(st, ticket.path \o "/dependencies",
                          DepMessage(origin, endpoint), outcome)
         IN IF d.res.tag = "Ok" THEN Out(d.st, Res("Ok", d.res.rec, 0), d.commits)
            ELSE IF d.res.tag \in {"ErrSome", "ErrNone"}
              THEN Out(d.st, Res("Ok", 0, 0), d.commits)
            ELSE d

\* Ticket::dependencies: the decoded pairs, in set_get_all order.
Ticket_dependencies(st, ticket) ==
    LET all == set_get_all(st, ticket.path \o "/dependencies")
        pair(id) == SplitOnce(st.records[id].message, "@")
    IN IF all.tag # "Ok" THEN [tag |-> all.tag, items |-> <<>>]
       ELSE IF \E k \in 1..Len(all.items) : ~pair(all.items[k]).found
         THEN [tag |-> "Malformed", items |-> <<>>]
       ELSE [tag |-> "Ok",
             items |-> [k \in 1..Len(all.items) |->
                          <<pair(all.items[k]).left, pair(all.items[k]).right>>]]

(***************************************************************************)
(* Dependency origins, the registry, and the resolving iterator            *)
(***************************************************************************)
\* impl From<TicketState> for DependencyStatus
DependencyStatus_from(ticket_state) ==
    IF ticket_state = "Open" THEN "Pending" ELSE "Complete"

\* What the remote workspace a "minimap" endpoint names answers when it is
\* opened and asked for the ticket's state: a status, or an error.
Worlds == {"Pending", "Complete", "Err"}

Status(st) == [tag |-> "Ok", status |-> st, what |-> ""]

StatusError(kind, what) == [tag |-> kind, status |-> "", what |-> what]

\* MinimapDependencyOrigin::status: the endpoint is split at '@'; without a
\* second part MalformedEndpoint, else what the remote workspace answers.
MinimapDependencyOrigin_status(endpoint, world) ==
    IF ~Contains(endpoint, {"@"}) THEN StatusError("MalformedEndpoint", endpoint)
    ELSE IF world = "Err" THEN StatusError("Git", "")
    ELSE Status(world)

\* The origins a caller may register: each answers every endpoint alike.
OriginImpls == {"AlwaysPending", "AlwaysComplete", "AlwaysFails"}

\* DependencyOrigin::status of an implementation.
DependencyOrigin_status(impl, endpoint, world) ==
    IF impl = "MinimapDependencyOrigin" THEN MinimapDependencyOrigin_status(endpoint, world)
    ELSE IF impl = "AlwaysPending" THEN Status("Pending")
    ELSE IF impl = "AlwaysComplete" THEN Status("Complete")
    ELSE StatusError("Failed", endpoint)

\* DependencyRegistry::new: the map holds the built-in origin.
DependencyRegistry_new == [s \in {"minimap"} |-> "MinimapDependencyOrigin"]

\* A validation that forgets the reserved slugs.
ValidateSlugNoReserved(slug) ==
    IF Contains(slug, {"@"}) THEN ErrorWith("MalformedOrigin", slug)
    ELSE Res("Ok", 0, 0)

validate_origin_slug(slug) ==
    IF slug = "_" \/ slug = "minimap" \/ Contains(slug, {"@"})
      THEN ErrorWith("MalformedOrigin", slug)
    ELSE Res("Ok", 0, 0)

\* DependencyRegistry::register: the registry after the call and the result.
DependencyRegistry_register(reg, slug, impl) ==
    IF validate_origin_slug(slug).tag # "Ok"
      THEN [registry |-> reg, res |-> validate_origin_slug(slug)]
    ELSE [registry |-> Put(reg, slug, impl), res |-> Res("Ok", 0, 0)]

\* DependencyRegistry::status (impl DependencyResolver)
DependencyRegistry_status(reg, slug, endpoint, world) ==
    IF slug = "_" THEN StatusError("MalformedOrigin", slug)
    ELSE IF slug \in DOMAIN reg
      THEN LET r == DependencyOrigin_status(reg[slug], endpoint, world) IN
           IF r.tag = "Ok" THEN r ELSE StatusError("Origin", r.tag)
    ELSE StatusError("UnknownOrigin", slug)

\* What one call of next() returns, with the resolver.status calls it made.
NextNone(calls) ==
    [tag |-> "None", ok |-> FALSE, origin |-> "", endpoint |-> "", status |-> "",
     calls |-> calls]

NextSome(origin, endpoint, status, calls) ==
    [tag |-> "Some", ok |-> TRUE, origin |-> origin, endpoint |-> endpoint,
     status |-> status, calls |-> calls]

\* A next() that hands every origin, "_" too, to the resolver.
NextViaResolver(st, id, reg, world) ==
    LET parts == SplitOnce(st.records[id].message, "@") IN
    IF ~parts.found THEN NextNone(<<>>)
    ELSE LET r == DependencyRegistry_status(reg, parts.left, parts.right, world) IN
         IF r.tag # "Ok" THEN NextNone(<<<<parts.left, parts.right>>>>)
         ELSE NextSome(parts.left, parts.right, r.status, <<<<parts.left, parts.right>>>>)

\* TicketDependencyIterator::next on the record the set walk yields: every
\* failure ends in `.ok()?`, which returns None.
TicketDependencyIterator_next(st, id, reg, world) ==
    LET parts == SplitOnce(st.records[id].message, "@") IN
    IF ~parts.found THEN NextNone(<<>>)
    ELSE IF parts.left = "_"
      THEN LET t == Workspace_ticket(st, parts.right) IN
           IF t.tag # "Ok" THEN NextNone(<<>>)
           ELSE LET s == Ticket_state(st, t.handle) IN
                IF s.tag # "Ok" THEN NextNone(<<>>)
                ELSE NextSome(parts.left, parts.right, DependencyStatus_from(s.state), <<>>)
    ELSE LET r == DependencyRegistry_status(reg, parts.left, parts.right, world) IN
         IF r.tag # "Ok" THEN NextNone(<<<<parts.left, parts.right>>>>)
         ELSE NextSome(parts.left, parts.right, r.status, <<<<parts.left, parts.right>>>>)

\* Ticket::resolve_dependencies, next() called once per record that
\* walk_set_present yields.
Ticket_resolve_dependencies(st, ticket, reg, world) ==
    LET w == walk_set_present(st, ticket.path \o "/dependencies") IN
    [k \in 1..Len(w.items) |-> TicketDependencyIterator_next(st, w.items[k], reg, world)]

(***************************************************************************)
(* Git backend: the repository at origin, the local repositories that      *)
(* GitRemote::open opens or clones, and the handles on them.  A commit     *)
(* object is [message, parents]; its oid is its position in `commits`, so  *)
(* a larger oid is a later commit.  A repository is [refs, objects].       *)
(***************************************************************************)
NoOid == 0

EmptyRepo == [refs |-> EmptyMap, objects |-> {}]

\* No repository anywhere but the empty one at origin, and no handle.
GitEmpty ==
    [commits |-> <<>>, origin |-> EmptyRepo, clones |-> EmptyMap, handles |-> EmptyMap,
     opening |-> EmptyMap, calls |-> EmptyMap]

\* The one remote URL the handles are opened against.
RemoteUrl == "url"

\* A directory that depends on the handle's machine in name only.
TmpDirOfUrlAlone(machine, remote) == [tmp |-> "m1", hash |-> remote]

\* generate_tmp_dir: the directory is a function of the remote alone, within
\* the temporary directory of the machine the caller runs on.
generate_tmp_dir(machine, remote) == [tmp |-> machine, hash |-> remote]

RefHead(collection) == "refs/heads/" \o collection

RefTag(name) == "refs/tags/" \o name

\* The commits reachable from a commit, itself included.
RECURSIVE Reachable(_, _)
Reachable(g, oids) ==
    LET more == oids \cup UNION {{g.commits[o].parents[i] : i \in 1..Len(g.commits[o].parents)}
                                   : o \in oids}
    IN IF more = oids THEN oids ELSE Reachable(g, more)

\* The members of a set of oids, latest commit first.
RECURSIVE Descending(_)
Descending(oids) ==
    IF oids = {} THEN <<>>
    ELSE LET m == CHOOSE x \in oids : \A y \in oids : y <= x
         IN <<m>> \o Descending(oids \ {m})

\* Revwalk from a head: every commit reachable from it, by commit time.
Revwalk(g, head) == IF head = NoOid THEN <<>> ELSE Descending(Reachable(g, {head}))

\* The local repository of a handle.
RepoOf(g, h) == g.clones[g.handles[h].dir]

\* GitRemote::walk: the oids from refs/heads/<collection> of the local
\* repository; nothing when the reference is not found.
GitRemote_walk(g, h, collection) ==
    Revwalk(g, Get(RepoOf(g, h).refs, RefHead(collection), NoOid))

\* Remote::latest on a Git handle.
GitLatest(g, h, collection) ==
    LET w == GitRemote_walk(g, h, collection) IN IF w = <<>> THEN NoOid ELSE w[1]

\* A set iterator that yields the sentinel commits like any other commit.
SetItemKeepsSentinels(g, h, oid) ==
    LET c == g.commits[oid]
        add == g.handles[h].set_add_oid
        del == g.handles[h].set_del_oid
        marks == {i \in 1..Len(c.parents) : c.parents[i] \in {add, del}}
    IN IF Len(c.parents) \notin {1, 2} THEN <<[id |-> oid, op |-> "Malformed"]>>
       ELSE IF marks = {} THEN <<[id |-> oid, op |-> "Malformed"]>>
       ELSE LET first == CHOOSE i \in marks : \A j \in marks : i <= j
            IN <<[id |-> oid, op |-> IF c.parents[first] = add THEN "Add" ELSE "Del"]>>

\* GitSetIterator::next for one commit of the walk: nothing for the
\* handle's two sentinel commits, Malformed for a commit without one or two
\* parents or without a sentinel parent, else the operation of the first
\* sentinel parent.
GitSetItem(g, h, oid) ==
    LET c == g.commits[oid]
        add == g.handles[h].set_add_oid
        del == g.handles[h].set_del_oid
        marks == {i \in 1..Len(c.parents) : c.parents[i] \in {add, del}}
    IN IF oid \in {add, del} THEN <<>>
       ELSE IF Len(c.parents) \notin {1, 2} THEN <<[id |-> oid, op |-> "Malformed"]>>
       ELSE IF marks = {} THEN <<[id |-> oid, op |-> "Malformed"]>>
       ELSE LET first == CHOOSE i \in marks : \A j \in marks : i <= j
            IN <<[id |-> oid, op |-> IF c.parents[first] = add THEN "Add" ELSE "Del"]>>

RECURSIVE GitSetItems(_, _, _)
GitSetItems(g, h, w) ==
    IF w = <<>> THEN <<>> ELSE GitSetItem(g, h, w[1]) \o GitSetItems(g, h, Tail(w))

\* GitRemote::walk_set
GitRemote_walk_set(g, h, collection) == GitSetItems(g, h, GitRemote_walk(g, h, collection))

\* Remote::set_find over walk_set: the first item that is an error ends the
\* search with that error; else the first record with the message decides.
RECURSIVE GitSetFindScan(_, _, _, _)
GitSetFindScan(g, w, message, i) ==
    IF i > Len(w) THEN Res("ErrNone", 0, 0)
    ELSE IF w[i].op = "Malformed" THEN Error("Malformed")
    ELSE IF g.commits[w[i].id].message = message
      THEN IF w[i].op = "Add" THEN Res("Ok", w[i].id, 0) ELSE Res("ErrSome", w[i].id, 0)
    ELSE GitSetFindScan(g, w, message, i + 1)

GitSetFind(g, h, collection, message) ==
    GitSetFindScan(g, GitRemote_walk_set(g, h, collection), message, 1)

\* What a push can come to: "reported", the push completes and the
\* push-update callback reports the status origin gave the ref; "unreported",
\* the push completes and the callback never names the ref; "error", the
\* push itself returns an error and origin is as before.
GitPushOutcomes == {"reported", "unreported", "error"}

\* Origin takes <commit>:<ref> when it has no such ref or when its ref is
\* an ancestor of the commit (a fast-forward).
OriginAccepts(g, ref, commit) ==
    LET theirs == Get(g.origin.refs, ref, NoOid)
    IN theirs = NoOid \/ theirs \in Reachable(g, {commit})

\* Origin after it took the push: the ref moved, the objects stored.
OriginWith(g, ref, commit) ==
    [g EXCEPT !.origin = [refs |-> Put(@.refs, ref, commit),
                          objects |-> @.objects \cup Reachable(g, {commit})]]

\* A commit that moves the local ref before it pushes.
CommitMovesRefFirst(g, h, branch, message, additional_parents, outcome) ==
    LET dir == g.handles[h].dir
        repo == g.clones[dir]
        ref_head == RefHead(branch)
        head == Get(repo.refs, ref_head, NoOid)
        parents == (IF head = NoOid THEN <<>> ELSE <<head>>) \o additional_parents
        commit == Len(g.commits) + 1
        made == [g EXCEPT !.commits = Append(@, [message |-> message, parents |-> parents]),
                          !.clones = Put(@, dir, [refs |-> Put(repo.refs, ref_head, commit),
                                                  objects |-> repo.objects \cup {commit}])]
    IN IF \E i \in 1..Len(additional_parents) : additional_parents[i] \notin repo.objects
         THEN [git |-> g, res |-> Error("Git")]
       ELSE IF outcome = "error" THEN [git |-> made, res |-> Error("Git")]
       ELSE IF outcome = "unreported" THEN [git |-> made, res |-> Error("NotPushed")]
       ELSE IF ~OriginAccepts(made, ref_head, commit)
         THEN [git |-> made, res |-> Error("PushFailed")]
       ELSE [git |-> OriginWith(made, ref_head, commit), res |-> Res("Ok", commit, 0)]

\* A commit that takes a push the callback never reported for a success.
CommitTakesSilenceForSuccess(g, h, branch, message, additional_parents, outcome) ==
    LET dir == g.handles[h].dir
        repo == g.clones[dir]
        ref_head == RefHead(branch)
        head == Get(repo.refs, ref_head, NoOid)
        parents == (IF head = NoOid THEN <<>> ELSE <<head>>) \o additional_parents
        commit == Len(g.commits) + 1
        made == [g EXCEPT !.commits = Append(@, [message |-> message, parents |-> parents]),
                          !.clones = Put(@, dir, [repo EXCEPT !.objects = @ \cup {commit}])]
        moved == [made EXCEPT
                    !.clones = Put(@, dir, [made.clones[dir] EXCEPT
                                              !.refs = Put(@, ref_head, commit)])]
        pushed == OriginWith(made, ref_head, commit)
        updated == [pushed EXCEPT
                      !.clones = Put(@, dir, [pushed.clones[dir] EXCEPT
                                                !.refs = Put(@, ref_head, commit)])]
    IN IF \E i \in 1..Len(additional_parents) : additional_parents[i] \notin repo.objects
         THEN [git |-> g, res |-> Error("Git")]
       ELSE IF outcome = "error" THEN [git |-> made, res |-> Error("Git")]
       ELSE IF outcome = "unreported" THEN [git |-> moved, res |-> Res("Ok", commit, 0)]
       ELSE IF ~OriginAccepts(made, ref_head, commit)
         THEN [git |-> made, res |-> Error("PushFailed")]
       ELSE [git |-> updated, res |-> Res("Ok", commit, 0)]

\* GitRecordBuilder::commit (attachments left out: the tree plays no part
\* in what follows).  The commit object is created in the local repository
\* whatever the push comes to; the local ref moves only after the callback
\* reported success for the ref.
GitRecordBuilder_commit(g, h, branch, message, additional_parents, outcome) ==
    LET dir == g.handles[h].dir
        repo == g.clones[dir]
        ref_head == RefHead(branch)
        head == Get(repo.refs, ref_head, NoOid)
        parents == (IF head = NoOid THEN <<>> ELSE <<head>>) \o additional_parents
        commit == Len(g.commits) + 1
        made == [g EXCEPT !.commits = Append(@, [message |-> message, parents |-> parents]),
                          !.clones = Put(@, dir, [repo EXCEPT !.objects = @ \cup {commit}])]
        pushed == OriginWith(made, ref_head, commit)
        updated == [pushed EXCEPT
                      !.clones = Put(@, dir, [pushed.clones[dir] EXCEPT
                                                !.refs = Put(@, ref_head, commit)])]
    IN IF \E i \in 1..Len(additional_parents) : additional_parents[i] \notin repo.objects
         THEN [git |-> g, res |-> Error("Git")]
       ELSE IF outcome = "error" THEN [git |-> made, res |-> Error("Git")]
       ELSE IF outcome = "unreported" THEN [git |-> made, res |-> Error("NotPushed")]
       ELSE IF ~OriginAccepts(made, ref_head, commit)
         THEN [git |-> made, res |-> Error("PushFailed")]
       ELSE [git |-> updated, res |-> Res("Ok", commit, 0)]

\* GitRemote::set_add_unchecked
GitRemote_set_add_unchecked(g, h, collection, message, outcome) ==
    GitRecordBuilder_commit(g, h, collection, message, <<g.handles[h].set_add_oid>>, outcome)

\* GitRemote::set_del_unchecked
GitRemote_set_del_unchecked(g, h, collection, message, outcome) ==
    GitRecordBuilder_commit(g, h, collection, message, <<g.handles[h].set_del_oid>>, outcome)

\* Remote::set_add on a Git handle.
GitSetAdd(g, h, collection, message, outcome) ==
    LET f == GitSetFind(g, h, collection, message) IN
    IF f.tag = "Malformed" THEN [git |-> g, res |-> f]
    ELSE IF f.tag = "Ok" THEN [git |-> g, res |-> Res("Err", f.rec, 0)]
    ELSE LET c == GitRemote_set_add_unchecked(g, h, collection, message, outcome)
         IN IF c.res.tag = "Ok" THEN [git |-> c.git, res |-> Res("Ok", c.res.rec, f.rec)]
            ELSE c

\* Remote::set_del on a Git handle.
GitSetDel(g, h, collection, message, outcome) ==
    LET f == GitSetFind(g, h, collection, message) IN
    IF f.tag = "Malformed" THEN [git |-> g, res |-> f]
    ELSE IF f.tag # "Ok" THEN [git |-> g, res |-> f]
    ELSE LET c == GitRemote_set_del_unchecked(g, h, collection, message, outcome)
         IN IF c.res.tag = "Ok" THEN [git |-> c.git, res |-> Res("Ok", c.res.rec, f.rec)]
            ELSE c

Remove(f, k) == [x \in (DOMAIN f) \ {k} |-> f[x]]

\* The first step of GitRemote::open: Repository::open on the directory of
\* the remote, else a clone of origin into it (refs and objects as origin
\* has them at that moment).
GitRemote_open_repo(g, h, machine) ==
    LET dir == generate_tmp_dir(machine, RemoteUrl)
        clones == IF dir \in DOMAIN g.clones THEN g.clones
                  ELSE Put(g.clones, dir, [refs |-> g.origin.refs,
                                           objects |-> g.origin.objects])
    IN [g EXCEPT !.clones = clones,
                 !.opening = Put(@, h, [step |-> "repo", dir |-> dir, set_add_oid |-> NoOid,
                                        set_del_oid |-> NoOid, needs_push |-> FALSE])]

\* The oids a new sentinel commit can get: the id is the hash of its
\* content, signature and time, so it is a new one or, made by the same
\* signature within the same second, that of an equal commit made before.
SentinelOids(g, name) ==
    {Len(g.commits) + 1}
      \cup {o \in 1..Len(g.commits) : g.commits[o] = [message |-> name, parents |-> <<>>]}

\* An upsert that makes a new commit also when the tag exists.
UpsertAlwaysCreates(g, dir, name, oid) ==
    LET repo == g.clones[dir]
        commits == IF oid = Len(g.commits) + 1
                     THEN Append(g.commits, [message |-> name, parents |-> <<>>])
                   ELSE g.commits
    IN [git |-> [g EXCEPT !.commits = commits,
                          !.clones = Put(@, dir, [refs |-> Put(repo.refs, RefTag(name), oid),
                                                  objects |-> repo.objects \cup {oid}])],
        oid |-> oid, created |-> TRUE]

\* GitRemote::upsert_operator_tag: the target of the tag when the local
\* repository has it; else a new parentless commit with the tag name as its
\* message, tagged.
upsert_operator_tag(g, dir, name, oid) ==
    LET repo == g.clones[dir]
        commits == IF oid = Len(g.commits) + 1
                     THEN Append(g.commits, [message |-> name, parents |-> <<>>])
                   ELSE g.commits
    IN IF RefTag(name) \in DOMAIN repo.refs
         THEN [git |-> g, oid |-> repo.refs[RefTag(name)], created |-> FALSE]
       ELSE [git |-> [g EXCEPT !.commits = commits,
                               !.clones = Put(@, dir, [refs |-> Put(repo.refs, RefTag(name), oid),
                                                       objects |-> repo.objects \cup {oid}])],
             oid |-> oid, created |-> TRUE]

\* The handle GitRemote::open returns.
GitOpened(g, h, o) ==
    [g EXCEPT !.opening = Remove(@, h),
              !.handles = Put(@, h, [dir |-> o.dir, set_add_oid |-> o.set_add_oid,
                                     set_del_oid |-> o.set_del_oid])]

\* The second step of GitRemote::open: both upserts; the handle is returned
\* at once when neither tag had to be created.
GitRemote_open_tags(g, h, plus_oid, minus_oid) ==
    LET o == g.opening[h]
        plus == upsert_operator_tag(g, o.dir, "meta/+", plus_oid)
        minus == upsert_operator_tag(plus.git, o.dir, "meta/-", minus_oid)
        found == [o EXCEPT !.step = "tags", !.set_add_oid = plus.oid,
                           !.set_del_oid = minus.oid,
                           !.needs_push = plus.created \/ minus.created]
    IN IF found.needs_push
         THEN [git |-> [minus.git EXCEPT !.opening = Put(@, h, found)], res |-> Res("Pending", 0, 0)]
       ELSE [git |-> GitOpened(minus.git, h, found), res |-> Res("Ok", 0, 0)]

\* Origin after a push of a tag: created when origin has no such tag, left
\* alone when it has one (the same commit, or another one: rejected).
OriginWithTag(g, dir, name) ==
    IF RefTag(name) \in DOMAIN g.origin.refs THEN g
    ELSE OriginWith(g, RefTag(name), g.clones[dir].refs[RefTag(name)])

\* The last step of GitRemote::open when a tag was created: the push of
\* both tag refs.  No callback looks at the status of the refs: the handle
\* is returned unless the push itself returns an error.
GitRemote_open_push(g, h, outcome) ==
    LET o == g.opening[h]
        pushed == OriginWithTag(OriginWithTag(g, o.dir, "meta/+"), o.dir, "meta/-")
    IN IF outcome = "error"
         THEN [git |-> [g EXCEPT !.opening = Remove(@, h)], res |-> Error("Git")]
       ELSE [git |-> GitOpened(pushed, h, o), res |-> Res("Ok", 0, 0)]

(***************************************************************************)
(* Calls: the caller's view of one operation                               *)
(***************************************************************************)
RECURSIVE Logged(_, _)
Logged(log, commits) ==
    IF commits = <<>> THEN log
    ELSE Logged(Put(log, commits[1][1],
                    Append(Get(log, commits[1][1], <<>>), commits[1][2])),
                Tail(commits))

Call(op, target, arg, outcomes, res) ==
    [op |-> op, target |-> target, arg |-> arg, outcomes |-> outcomes, res |-> res,
     changes |-> EmptyMap]

\* The pushes a call made: one per record it committed, and the one that
\* failed when it ended on a push error.
Pushes(out) ==
    Len(out.commits) + (IF out.res.tag \in {"NotPushed", "PushFailed"} THEN 1 ELSE 0)

\* outcomes[i] is what the remote answers to the call's i-th push; a push
\* the call never makes has no answer, and its entry stays "ok".
ReturnsWith(op, target, arg, changes, outcomes, out) ==
    /\ \A i \in DOMAIN outcomes : i > Pushes(out) => outcomes[i] = "ok"
    /\ state' = out.st
    /\ last' = [Call(op, target, arg, outcomes, out.res) EXCEPT !.changes = changes]
    /\ registry' = registry
    /\ git' = git
    /\ committed' = Logged(committed, out.commits)

Returns(op, target, arg, outcomes, out) ==
    ReturnsWith(op, target, arg, EmptyMap, outcomes, out)

Init ==
    /\ state = EmptyState
    /\ last = Call("open", "", "", <<>>, Res("Ok", 0, 0))
    /\ committed = EmptyMap
    /\ projects = {}
    /\ tickets = {}
    /\ issued = EmptyMap
    /\ shadow = EmptyMap
    /\ registry = DependencyRegistry_new
    /\ git = GitEmpty

\* record_builder(collection).commit(message)
CallCommit(collection, message, outcome) ==
    /\ state.total_ids < MaxRecords
    /\ Returns("commit", collection, message, <<outcome>>,
               Commit(state, collection, message, "None", EmptyMap, outcome))
    /\ UNCHANGED <<projects, tickets, issued, shadow>>

CallSetAddUnchecked(collection, message, outcome) ==
    /\ state.total_ids < MaxRecords
    /\ Returns("set_add_unchecked", collection, message, <<outcome>>,
               set_add_unchecked(state, collection, message, outcome))
    /\ UNCHANGED <<projects, tickets, issued, shadow>>

CallSetDelUnchecked(collection, message, outcome) ==
    /\ state.total_ids < MaxRecords
    /\ Returns("set_del_unchecked", collection, message, <<outcome>>,
               set_del_unchecked(state, collection, message, outcome))
    /\ UNCHANGED <<projects, tickets, issued, shadow>>

CallSetAdd(collection, message, outcome) ==
    /\ state.total_ids < MaxRecords
    /\ Returns("set_add", collection, message, <<outcome>>,
               set_add(state, collection, message, outcome))
    /\ UNCHANGED <<projects, tickets, issued, shadow>>

CallSetDel(collection, message, outcome) ==
    /\ state.total_ids < MaxRecords
    /\ Returns("set_del", collection, message, <<outcome>>,
               set_del(state, collection, message, outcome))
    /\ UNCHANGED <<projects, tickets, issued, shadow>>

\* set_del(collection, message)? followed by set_add(collection, message)?;
\* outcomes are those of the pushes the two calls make, in order.
CallSetDelThenAdd(collection, message, o1, o2) ==
    /\ state.total_ids + 1 < MaxRecords
    /\ LET d == set_del(state, collection, message, o1)
           a == set_add(d.st, collection, message, IF Pushes(d) = 0 THEN o1 ELSE o2)
       IN Returns("set_del_add", collection, message, <<o1, o2>>,
                  IF d.res.tag \in ErrorKinds THEN d
                  ELSE Out(a.st, a.res, d.commits \o a.commits))
    /\ UNCHANGED <<projects, tickets, issued, shadow>>

NextSet ==
    \/ \E c \in Collections, m \in Messages, o1, o2 \in PushOutcomes :
         CallSetDelThenAdd(c, m, o1, o2)
    \/ \E c \in LogCollections, m \in Messages, o \in PushOutcomes : CallCommit(c, m, o)
    \/ \E c \in Collections, m \in Messages, o \in PushOutcomes : CallSetAddUnchecked(c, m, o)
    \/ \E c \in Collections, m \in Messages, o \in PushOutcomes : CallSetDelUnchecked(c, m, o)
    \/ \E c \in Collections, m \in Messages, o \in PushOutcomes : CallSetAdd(c, m, o)
    \/ \E c \in Collections, m \in Messages, o \in PushOutcomes : CallSetDel(c, m, o)

SpecSet == Init /\ [][NextSet]_vars

(***************************************************************************)
(* Calls on a set through the checked operations only                      *)
(***************************************************************************)
CheckedMessages == {"a", "b", "c"}

NextChecked ==
    \/ \E c \in Collections, m \in CheckedMessages, o \in PushOutcomes : CallSetAdd(c, m, o)
    \/ \E c \in Collections, m \in CheckedMessages, o \in PushOutcomes : CallSetDel(c, m, o)

SpecChecked == Init /\ [][NextChecked]_vars

(***************************************************************************)
(* Calls on the record builder, attachments included                       *)
(***************************************************************************)
Names == {"f", "g"}
Bytes == {1, 2}

\* The builder after its upsert_attachment / remove_attachment calls: the
\* names it touched, each with the bytes to store or NoBlob for a removal.
Builders == UNION {[ns -> Bytes \cup {NoBlob}] : ns \in SUBSET Names}

LogMessages == {"a"}

\* record_builder(collection), attachment calls, commit(message)
CallCommitWith(collection, message, changes, outcome) ==
    /\ state.total_ids < MaxLogRecords
    /\ ReturnsWith("commit", collection, message, changes, <<outcome>>,
                   Commit(state, collection, message, "None", changes, outcome))
    /\ UNCHANGED <<projects, tickets, issued, shadow>>

CallLogSetAddUnchecked(collection, message, outcome) ==
    /\ state.total_ids < MaxLogRecords
    /\ Returns("set_add_unchecked", collection, message, <<outcome>>,
               set_add_unchecked(state, collection, message, outcome))
    /\ UNCHANGED <<projects, tickets, issued, shadow>>

CallLogSetDelUnchecked(collection, message, outcome) ==
    /\ state.total_ids < MaxLogRecords
    /\ Returns("set_del_unchecked", collection, message, <<outcome>>,
               set_del_unchecked(state, collection, message, outcome))
    /\ UNCHANGED <<projects, tickets, issued, shadow>>

NextLog ==
    \/ \E c \in LogCollections, m \in LogMessages, ch \in Builders, o \in PushOutcomes :
         CallCommitWith(c, m, ch, o)
    \/ \E c \in Collections, m \in Messages, o \in PushOutcomes :
         CallLogSetAddUnchecked(c, m, o)
    \/ \E c \in Collections, m \in Messages, o \in PushOutcomes :
         CallLogSetDelUnchecked(c, m, o)

SpecLog == Init /\ [][NextLog]_vars

(***************************************************************************)
(* Calls on a workspace; the caller keeps the handles it was given         *)
(***************************************************************************)
Origins == {"_"}
Endpoints == {"P-1"}
TicketStates == {"Open", "Closed"}

NoWrites == [title |-> <<>>, comments |-> <<>>, state |-> "Open", deps |-> {}]

Written(slug) == Get(shadow, slug, NoWrites)

CallCreateProject(slug, outcome) ==
    /\ state.total_ids < MaxWsRecords
    /\ Len(Walk(state, "meta/projects")) < MaxProjectOps
    /\ LET out == Workspace_create_project(state, slug, outcome) IN
       /\ Returns("create_project", slug, "", <<outcome>>, out)
       /\ projects' = IF out.res.tag = "Ok" THEN projects \cup {out.res.handle}
                      ELSE projects
    /\ UNCHANGED <<tickets, issued, shadow>>

CallDeleteProject(slug, outcome) ==
    /\ state.total_ids < MaxWsRecords
    /\ Len(Walk(state, "meta/projects")) < MaxProjectOps
    /\ Returns("delete_project", slug, "", <<outcome>>,
               Workspace_delete_project(state, slug, outcome))
    /\ UNCHANGED <<projects, tickets, issued, shadow>>

CallCreateTicket(project, o1, o2) ==
    /\ state.total_ids < MaxWsRecords
    /\ Len(Walk(state, project.meta_path \o "/ticket_counter")) < MaxCounter
    /\ LET out == Project_create_ticket(state, project, o1, o2) IN
       /\ Returns("create_ticket", project.slug, "", <<o1, o2>>, out)
       /\ tickets' = IF out.res.tag = "Ok" THEN tickets \cup {out.res.handle}
                     ELSE tickets
       /\ issued' = IF out.commits # <<>>
                      THEN Put(issued, project.slug,
                               Append(Get(issued, project.slug, <<>>), out.res.handle))
                    ELSE issued
    /\ UNCHANGED <<projects, shadow>>

CallSetTitle(ticket, name, outcome) ==
    /\ state.total_ids < MaxWsRecords
    /\ Len(Walk(state, ticket.path \o "/title")) < MaxFieldWrites
    /\ LET out == Ticket_set_title(state, ticket, name, outcome) IN
       /\ Returns("set_title", ticket.slug, name, <<outcome>>, out)
       /\ shadow' = IF out.res.tag = "Ok"
                      THEN Put(shadow, ticket.slug,
                               [Written(ticket.slug) EXCEPT !.title = <<name>>])
                    ELSE shadow
    /\ UNCHANGED <<projects, tickets, issued>>

CallAddComment(ticket, comment, outcome) ==
    /\ state.total_ids < MaxWsRecords
    /\ Len(Walk(state, ticket.path \o "/comment")) < MaxFieldWrites + 1
    /\ LET out == Ticket_add_comment(state, ticket, comment, outcome) IN
       /\ Returns("add_comment", ticket.slug, comment, <<outcome>>, out)
       /\ shadow' = IF out.res.tag = "Ok"
                      THEN Put(shadow, ticket.slug,
                               [Written(ticket.slug) EXCEPT
                                  !.comments = Append(@, comment)])
                    ELSE shadow
    /\ UNCHANGED <<projects, tickets, issued>>

CallSetState(ticket, ticket_state, outcome) ==
    /\ state.total_ids < MaxWsRecords
    /\ Len(Walk(state, ticket.path \o "/state")) < MaxFieldWrites
    /\ LET out == Ticket_set_state(state, ticket, ticket_state, outcome) IN
       /\ Returns("set_state", ticket.slug, ticket_state, <<outcome>>, out)
       /\ shadow' = IF out.res.tag = "Ok"
                      THEN Put(shadow, ticket.slug,
                               [Written(ticket.slug) EXCEPT !.state = ticket_state])
                    ELSE shadow
    /\ UNCHANGED <<projects, tickets, issued>>

CallAddDependency(ticket, origin, endpoint, outcome) ==
    /\ state.total_ids < MaxWsRecords
    /\ Len(Walk(state, ticket.path \o "/dependencies")) < MaxFieldWrites
    /\ LET out == Ticket_add_dependency(state, ticket, origin, endpoint, outcome) IN
       /\ Returns("add_dependency", ticket.slug, origin \o "@" \o endpoint,
                  <<outcome>>, out)
       /\ shadow' = IF out.res.tag = "Ok"
                      THEN Put(shadow, ticket.slug,
                               [Written(ticket.slug) EXCEPT
                                  !.deps = @ \cup {<<origin, endpoint>>}])
                    ELSE shadow
    /\ UNCHANGED <<projects, tickets, issued>>

Next ==
    \/ \E s \in ProjectSlugs, o \in PushOutcomes : CallCreateProject(s, o)
    \/ \E s \in ProjectSlugs, o \in PushOutcomes : CallDeleteProject(s, o)
    \/ \E p \in projects, o1, o2 \in PushOutcomes : CallCreateTicket(p, o1, o2)
    \/ \E t \in tickets, x \in Titles, o \in PushOutcomes : CallSetTitle(t, x, o)
    \/ \E t \in tickets, x \in Comments, o \in PushOutcomes : CallAddComment(t, x, o)
    \/ \E t \in tickets, x \in TicketStates, o \in PushOutcomes : CallSetState(t, x, o)
    \/ \E t \in tickets, g \in Origins, e \in Endpoints, o \in PushOutcomes :
         CallAddDependency(t, g, e, o)

Spec == Init /\ [][Next]_vars

(***************************************************************************)
(* Calls on the tickets of a workspace that holds two projects             *)
(***************************************************************************)
\* The calls that build the workspace, in order: project "P" with two
\* tickets and project "Q-7" with one, every push successful.
SetUpPlan == <<[op |-> "create_project", slug |-> "P"],
               [op |-> "create_ticket", slug |-> "P"],
               [op |-> "create_ticket", slug |-> "P"],
               [op |-> "create_project", slug |-> "Q-7"],
               [op |-> "create_ticket", slug |-> "Q-7"]>>

\* The next call of the plan: one project or ticket exists per call made.
SetUpStep == Cardinality(projects) + Cardinality(tickets) + 1

SetUpDone == SetUpStep > Len(SetUpPlan)

\* Records the plan writes: one per project, two per ticket.
RECURSIVE SetUpRecords(_)
SetUpRecords(k) ==
    IF k = 0 THEN 0
    ELSE SetUpRecords(k - 1) + (IF SetUpPlan[k].op = "create_project" THEN 1 ELSE 2)

SetUpProject(slug) ==
    /\ ~SetUpDone
    /\ SetUpPlan[SetUpStep] = [op |-> "create_project", slug |-> slug]
    /\ LET out == Workspace_create_project(state, slug, "ok") IN
       /\ Returns("create_project", slug, "", <<"ok">>, out)
       /\ projects' = projects \cup {out.res.handle}
    /\ UNCHANGED <<tickets, issued, shadow>>

SetUpTicket(project) ==
    /\ ~SetUpDone
    /\ SetUpPlan[SetUpStep] = [op |-> "create_ticket", slug |-> project.slug]
    /\ LET out == Project_create_ticket(state, project, "ok", "ok") IN
       /\ Returns("create_ticket", project.slug, "", <<"ok", "ok">>, out)
       /\ tickets' = tickets \cup {out.res.handle}
       /\ issued' = Put(issued, project.slug,
                        Append(Get(issued, project.slug, <<>>), out.res.handle))
    /\ UNCHANGED <<projects, shadow>>

AttachmentNames == {"f"}

\* Messages committed to a state collection through the record builder,
\* outside Ticket::set_state.
RawStates == {"Open"}

\* The handler of one write to a ticket.
TicketWrite(st, ticket, op, arg, data, outcome) ==
    CASE op = "set_title" -> Ticket_set_title(st, ticket, arg, outcome)
      [] op = "add_comment" -> Ticket_add_comment(st, ticket, arg, outcome)
      [] op = "set_state" -> Ticket_set_state(st, ticket, arg, outcome)
      [] op = "add_dependency" -> Ticket_add_dependency(st, ticket, "_", arg, outcome)
      [] op = "upsert_attachment" -> Ticket_upsert_attachment(st, ticket, arg, data, outcome)
      [] op = "remote_attachment" -> Ticket_remote_attachment(st, ticket, arg, outcome)
      [] op = "commit_state" ->
           Commit(st, ticket.path \o "/state", arg, "None", EmptyMap, outcome)

CallTicketWrite(ticket, op, arg, data, outcome) ==
    /\ SetUpDone
    /\ state.total_ids < SetUpRecords(Len(SetUpPlan)) + MaxTicketWrites
    /\ ReturnsWith(op, ticket.slug, arg,
                   IF op = "upsert_attachment" THEN [n \in {arg} |-> data] ELSE EmptyMap,
                   <<outcome>>, TicketWrite(state, ticket, op, arg, data, outcome))
    /\ UNCHANGED <<projects, tickets, issued, shadow>>

\* The push of a ticket write succeeds or is rejected.
TicketPushOutcomes == {"ok", "rejected"}

NextTickets ==
    \/ \E s \in {"P", "Q-7"} : SetUpProject(s)
    \/ \E p \in projects : SetUpTicket(p)
    \/ \E t \in tickets, x \in Titles, o \in TicketPushOutcomes :
         CallTicketWrite(t, "set_title", x, NoBlob, o)
    \/ \E t \in tickets, x \in Titles, o \in TicketPushOutcomes :
         CallTicketWrite(t, "add_comment", x, NoBlob, o)
    \/ \E t \in tickets, x \in TicketStates, o \in TicketPushOutcomes :
         CallTicketWrite(t, "set_state", x, NoBlob, o)
    \/ \E t \in tickets, x \in Endpoints, o \in TicketPushOutcomes :
         CallTicketWrite(t, "add_dependency", x, NoBlob, o)
    \/ \E t \in tickets, n \in AttachmentNames, b \in Bytes, o \in TicketPushOutcomes :
         CallTicketWrite(t, "upsert_attachment", n, b, o)
    \/ \E t \in tickets, n \in AttachmentNames, o \in TicketPushOutcomes :
         CallTicketWrite(t, "remote_attachment", n, NoBlob, o)
    \/ \E t \in tickets, x \in RawStates, o \in TicketPushOutcomes :
         CallTicketWrite(t, "commit_state", x, NoBlob, o)

SpecTickets == Init /\ [][NextTickets]_vars

(***************************************************************************)
(* Calls on the dependencies of ticket P-1, in the same workspace          *)
(***************************************************************************)
DepHolders == {"P-1"}
DepTargets == {"P-2"}
DepOrigins == {"_", "gh", "a@b"}
DepEndpoints == {"P-2", "x@y"}

\* A message added to the dependencies set outside add_dependency.
DepJunk == {"junk"}

DepRoom ==
    /\ SetUpDone
    /\ state.total_ids < SetUpRecords(Len(SetUpPlan)) + MaxDepWrites

CallDepAdd(ticket, origin, endpoint, outcome) ==
    /\ DepRoom
    /\ LET out == Ticket_add_dependency(state, ticket, origin, endpoint, outcome) IN
       /\ ReturnsWith("add_dependency", ticket.slug, origin \o "@" \o endpoint,
                      [origin |-> origin, endpoint |-> endpoint], <<outcome>>, out)
       /\ shadow' = IF out.res.tag = "Ok"
                      THEN Put(shadow, ticket.slug,
                               [Written(ticket.slug) EXCEPT
                                  !.deps = @ \cup {<<origin, endpoint>>}])
                    ELSE shadow
    /\ UNCHANGED <<projects, tickets, issued>>

CallDepRemove(ticket, origin, endpoint, outcome) ==
    /\ DepRoom
    /\ LET out == Ticket_remove_dependency(state, ticket, origin, endpoint, outcome) IN
       /\ ReturnsWith("remove_dependency", ticket.slug, origin \o "@" \o endpoint,
                      [origin |-> origin, endpoint |-> endpoint], <<outcome>>, out)
       /\ shadow' = IF out.res.tag = "Ok" /\ out.res.rec # 0
                      THEN Put(shadow, ticket.slug,
                               [Written(ticket.slug) EXCEPT
                                  !.deps = @ \ {<<origin, endpoint>>}])
                    ELSE shadow
    /\ UNCHANGED <<projects, tickets, issued>>

CallDepSetState(ticket, ticket_state, outcome) ==
    /\ DepRoom
    /\ Returns("set_state", ticket.slug, ticket_state, <<outcome>>,
               Ticket_set_state(state, ticket, ticket_state, outcome))
    /\ UNCHANGED <<projects, tickets, issued, shadow>>

\* Remote::set_add on the dependencies collection itself.
CallDepSetAdd(ticket, message, outcome) ==
    /\ DepRoom
    /\ Returns("set_add", ticket.slug, message, <<outcome>>,
               set_add(state, ticket.path \o "/dependencies", message, outcome))
    /\ UNCHANGED <<projects, tickets, issued, shadow>>

NextDeps ==
    \/ \E s \in {"P", "Q-7"} : SetUpProject(s)
    \/ \E p \in projects : SetUpTicket(p)
    \/ \E t \in tickets, g \in DepOrigins, e \in DepEndpoints, o \in TicketPushOutcomes :
         t.slug \in DepHolders /\ CallDepAdd(t, g, e, o)
    \/ \E t \in tickets, g \in DepOrigins, e \in DepEndpoints, o \in TicketPushOutcomes :
         t.slug \in DepHolders /\ CallDepRemove(t, g, e, o)
    \/ \E t \in tickets, x \in TicketStates, o \in TicketPushOutcomes :
         t.slug \in DepTargets /\ CallDepSetState(t, x, o)
    \/ \E t \in tickets, m \in DepJunk, o \in TicketPushOutcomes :
         t.slug \in DepHolders /\ CallDepSetAdd(t, m, o)

SpecDeps == Init /\ [][NextDeps]_vars

(***************************************************************************)
(* Calls on a DependencyRegistry                                           *)
(***************************************************************************)
RegistrySlugs == {"_", "minimap", "a@b", "gh", "ci"}
StatusEndpoints == {"x", "url@P-1"}

CallRegister(slug, impl) ==
    /\ LET r == DependencyRegistry_register(registry, slug, impl) IN
       /\ registry' = r.registry
       /\ last' = Call("register", slug, impl, <<>>, r.res)
    /\ UNCHANGED <<state, committed, projects, tickets, issued, shadow, git>>

CallStatus(slug, endpoint, world) ==
    /\ last' = Call("status", slug, endpoint, <<>>,
                    DependencyRegistry_status(registry, slug, endpoint, world))
    /\ UNCHANGED <<state, committed, projects, tickets, issued, shadow, registry, git>>

NextRegistry ==
    \/ \E s \in RegistrySlugs, i \in OriginImpls : CallRegister(s, i)
    \/ \E s \in RegistrySlugs, e \in StatusEndpoints, w \in Worlds : CallStatus(s, e, w)

SpecRegistry == Init /\ [][NextRegistry]_vars

(***************************************************************************)
(* Calls that create projects, with slugs of every shape                   *)
(***************************************************************************)
BadSlugs == {"a/b", "/", "a b", " ", "a\tb", "Q/ 7"}

AnySlugs == ProjectSlugs \cup BadSlugs

\* p.create_project(slug) on a project handle the caller holds.
CallCreateSubProject(parent, slug, o1, o2) ==
    /\ state.total_ids < MaxWsRecords
    /\ Len(Walk(state, "meta/projects")) < MaxProjectOps
    /\ LET out == Project_create_project(state, parent, slug, o1, o2) IN
       /\ Returns("create_subproject", slug, parent.slug, <<o1, o2>>, out)
       /\ projects' = IF out.res.tag = "Ok" THEN projects \cup {out.res.handle}
                      ELSE projects
    /\ UNCHANGED <<tickets, issued, shadow>>

NextProject ==
    \/ \E s \in AnySlugs, o \in PushOutcomes : CallCreateProject(s, o)
    \/ \E s \in ProjectSlugs, o \in PushOutcomes : CallDeleteProject(s, o)
    \/ \E p \in projects, s \in AnySlugs, o1, o2 \in PushOutcomes :
         CallCreateSubProject(p, s, o1, o2)

SpecProject == Init /\ [][NextProject]_vars

(***************************************************************************)
(* Calls on the name and description of a workspace and of its project,    *)
(* and on the title of its ticket                                          *)
(***************************************************************************)
MaxGitCommits == 4      \* commit objects, sentinels included (Git specification)

MaxTextWrites == 3      \* records the name / description / title setters write

FieldTexts == {"a", "b"}

ProjectFieldOps == {"project_set_name", "project_set_description"}

FieldOps == {"set_name", "set_description", "set_title"} \cup ProjectFieldOps

\* The workspace is built by the first two calls of the plan.
FieldSetUpCalls == 2

FieldSetUpDone == SetUpStep > FieldSetUpCalls

FieldSetUpProject(slug) == SetUpStep <= FieldSetUpCalls /\ SetUpProject(slug)

FieldSetUpTicket(project) == SetUpStep <= FieldSetUpCalls /\ SetUpTicket(project)

\* The collection a setter writes and its getter reads.
FieldCollection(op, project, ticket) ==
    CASE op = "set_name" -> "meta/workspace/name"
      [] op = "set_description" -> "meta/workspace/description"
      [] op = "project_set_name" -> project.meta_path \o "/name"
      [] op = "project_set_description" -> project.meta_path \o "/description"
      [] op = "set_title" -> ticket.path \o "/title"

\* The handler of one setter.
FieldWrite(st, op, project, ticket, text, outcome) ==
    CASE op = "set_name" -> Workspace_set_name(st, text, outcome)
      [] op = "set_description" -> Workspace_set_description(st, text, outcome)
      [] op = "project_set_name" -> Project_set_name(st, project, text, outcome)
      [] op = "project_set_description" ->
           Project_set_description(st, project, text, outcome)
      [] op = "set_title" -> Ticket_set_title(st, ticket, text, outcome)

\* The getter that belongs to a setter.
FieldRead(st, op, project, ticket) ==
    CASE op = "set_name" -> Workspace_name(st)
      [] op = "set_description" -> Workspace_description(st)
      [] op = "project_set_name" -> Project_name(st, project)
      [] op = "project_set_description" -> Project_description(st, project)
      [] op = "set_title" -> Ticket_title(st, ticket)

CallFieldWrite(op, project, ticket, text, outcome) ==
    /\ FieldSetUpDone
    /\ state.total_ids < SetUpRecords(FieldSetUpCalls) + MaxTextWrites
    /\ Returns(op, IF op \in ProjectFieldOps THEN project.slug ELSE ticket.slug,
               text, <<outcome>>,
               FieldWrite(state, op, project, ticket, text, outcome))
    /\ UNCHANGED <<projects, tickets, issued, shadow>>

NextFields ==
    \/ FieldSetUpProject("P")
    \/ \E p \in projects : FieldSetUpTicket(p)
    \/ \E p \in projects, t \in tickets, x \in FieldTexts, o \in TicketPushOutcomes :
         CallFieldWrite("set_name", p, t, x, o)
    \/ \E p \in projects, t \in tickets, x \in FieldTexts, o \in TicketPushOutcomes :
         CallFieldWrite("set_description", p, t, x, o)
    \/ \E p \in projects, t \in tickets, x \in FieldTexts, o \in TicketPushOutcomes :
         CallFieldWrite("project_set_name", p, t, x, o)
    \/ \E p \in projects, t \in tickets, x \in FieldTexts, o \in TicketPushOutcomes :
         CallFieldWrite("project_set_description", p, t, x, o)
    \/ \E p \in projects, t \in tickets, x \in FieldTexts, o \in TicketPushOutcomes :
         CallFieldWrite("set_title", p, t, x, o)

SpecFields == Init /\ [][NextFields]_vars

(***************************************************************************)
(* Calls that create and delete projects and create tickets, on one handle *)
(***************************************************************************)
NextCounter ==
    \/ \E s \in ProjectSlugs, o \in PushOutcomes : CallCreateProject(s, o)
    \/ \E s \in ProjectSlugs, o \in PushOutcomes : CallDeleteProject(s, o)
    \/ \E p \in projects, o1, o2 \in PushOutcomes : CallCreateTicket(p, o1, o2)

SpecCounter == Init /\ [][NextCounter]_vars

(***************************************************************************)
(* Calls on Git handles opened against the same remote: "a" and "b" by     *)
(* processes on one machine, "c" and "d" each on a machine of its own.     *)
(* Here "a" and "c" are at work.                                           *)
(***************************************************************************)
GitHandles == {"a", "c"}

MachineOf(h) == IF h = "c" THEN "m2" ELSE IF h = "d" THEN "m3" ELSE "m1"

GitMessages == {"x"}

\* What the caller of a Git operation sees, and the repositories after it.
GitReturns(op, h, collection, message, outcome, out) ==
    /\ git' = out.git
    /\ last' = [Call(op, h, message, <<outcome>>, out.res)
                  EXCEPT !.changes = [collection |-> collection]]
    /\ UNCHANGED <<state, committed, projects, tickets, issued, shadow, registry>>

GitIsOpen(h) == h \in DOMAIN git.handles

GitRoom == Len(git.commits) < MaxGitCommits

CallGitOpenRepo(h) ==
    /\ h \notin DOMAIN git.handles
    /\ h \notin DOMAIN git.opening
    /\ GitReturns("open_repo", h, "", "", "ok",
                  [git |-> GitRemote_open_repo(git, h, MachineOf(h)),
                   res |-> Res("Pending", 0, 0)])

CallGitOpenTags(h) ==
    /\ h \in DOMAIN git.opening
    /\ git.opening[h].step = "repo"
    /\ \E plus_oid \in SentinelOids(git, "meta/+") :
         \E minus_oid \in
              SentinelOids(upsert_operator_tag(git, git.opening[h].dir, "meta/+", plus_oid).git,
                           "meta/-") :
           GitReturns("open_tags", h, "", "", "ok",
                      GitRemote_open_tags(git, h, plus_oid, minus_oid))

CallGitOpenPush(h, outcome) ==
    /\ h \in DOMAIN git.opening
    /\ git.opening[h].step = "tags"
    /\ GitReturns("open_push", h, "", "", outcome, GitRemote_open_push(git, h, outcome))

CallGitCommit(h, collection, message, outcome) ==
    /\ GitIsOpen(h)
    /\ GitRoom
    /\ GitReturns("commit", h, collection, message, outcome,
                  GitRecordBuilder_commit(git, h, collection, message, <<>>, outcome))

CallGitSetAddUnchecked(h, collection, message, outcome) ==
    /\ GitIsOpen(h)
    /\ GitRoom
    /\ GitReturns("set_add_unchecked", h, collection, message, outcome,
                  GitRemote_set_add_unchecked(git, h, collection, message, outcome))

CallGitSetDelUnchecked(h, collection, message, outcome) ==
    /\ GitIsOpen(h)
    /\ GitRoom
    /\ GitReturns("set_del_unchecked", h, collection, message, outcome,
                  GitRemote_set_del_unchecked(git, h, collection, message, outcome))

NextGit ==
    \/ \E h \in GitHandles : CallGitOpenRepo(h)
    \/ \E h \in GitHandles : CallGitOpenTags(h)
    \/ \E h \in GitHandles, o \in {"ok", "error"} : CallGitOpenPush(h, o)
    \/ \E h \in GitHandles, c \in LogCollections, m \in GitMessages, o \in GitPushOutcomes :
         CallGitCommit(h, c, m, o)
    \/ \E h \in GitHandles, c \in Collections, m \in GitMessages, o \in GitPushOutcomes :
         CallGitSetAddUnchecked(h, c, m, o)
    \/ \E h \in GitHandles, c \in Collections, m \in GitMessages, o \in GitPushOutcomes :
         CallGitSetDelUnchecked(h, c, m, o)

SpecGit == Init /\ [][NextGit]_vars

(***************************************************************************)
(* SpecGitShared: plain commits through three handles on the same remote,  *)
(* "a" and "b" opened on one machine and "c" on another                    *)
(***************************************************************************)
GitSharedHandles == {"a", "b", "c"}

NextGitShared ==
    \/ \E h \in GitSharedHandles : CallGitOpenRepo(h)
    \/ \E h \in GitSharedHandles : CallGitOpenTags(h)
    \/ \E h \in GitSharedHandles, o \in {"ok", "error"} : CallGitOpenPush(h, o)
    \/ \E h \in GitSharedHandles, c \in LogCollections, m \in GitMessages, o \in GitPushOutcomes :
         CallGitCommit(h, c, m, o)

SpecGitShared == Init /\ [][NextGitShared]_vars

(***************************************************************************)
(* SpecGitRetry: plain commits through two clones.  The caller of "c"      *)
(* keeps committing (a rejected commit is tried again from the top) over a *)
(* transport that answers, and has room for one commit more than the other *)
(* writer, "a", which commits when it likes and may stop.  The commit      *)
(* object a rejected push leaves in the clone is reached from no reference *)
(* and read by no operation: the state after a rejected retry is taken     *)
(* without it, so that retrying does not use up the room.                  *)
(***************************************************************************)
RetryingHandle == "c"

RetryMessages == {"x", "y"}

MaxRetryCommits == 5

RetryRoom == Len(git.commits) < MaxRetryCommits

CallGitRetry ==
    /\ GitIsOpen(RetryingHandle)
    /\ \E c \in LogCollections, m \in RetryMessages :
         LET out == GitRecordBuilder_commit(git, RetryingHandle, c, m, <<>>, "reported")
         IN IF out.res.tag = "Ok"
              THEN RetryRoom /\ GitReturns("commit", RetryingHandle, c, m, "reported", out)
            ELSE GitReturns("commit", RetryingHandle, c, m, "reported",
                            [git |-> git, res |-> out.res])

NextGitRetry ==
    \/ \E h \in GitHandles : CallGitOpenRepo(h)
    \/ \E h \in GitHandles : CallGitOpenTags(h)
    \/ \E h \in GitHandles, o \in {"ok", "error"} : CallGitOpenPush(h, o)
    \/ \E h \in GitHandles \ {RetryingHandle}, c \in LogCollections, m \in GitMessages,
          o \in GitPushOutcomes :
         CallGitCommit(h, c, m, o)
    \/ CallGitRetry

SpecGitRetry == Init /\ [][NextGitRetry]_vars /\ WF_vars(CallGitRetry)

(***************************************************************************)
(* SpecGitTickets: Project::create_ticket on Git handles, one step of the  *)
(* call at a time, so that the calls of two handles opened on one machine  *)
(* interleave.  git.calls[h] is the position of the call running on handle *)
(* h and the id it has computed.                                           *)
(***************************************************************************)
MaxTicketCommits == 6

TicketRoom == Len(git.commits) < MaxTicketCommits

\* The project whose tickets are created.
GitProject == Project("P")

GitCounterPath == GitProject.meta_path \o "/ticket_counter"

GitTicketsPath == GitProject.path \o "/tickets"

\* The head of the counter as create_ticket reads it: 0 without a record.
GitTicketCounter(g, h) ==
    LET head == GitLatest(g, h, GitCounterPath)
    IN IF head = NoOid THEN 0 ELSE ParseU64(g.commits[head].message)

\* create_ticket returns: the call is over.
GitTicketReturns(h, g, res) ==
    /\ git' = [g EXCEPT !.calls = Remove(@, h)]
    /\ last' = [Call("create_ticket", h, "", <<>>, res)
                  EXCEPT !.changes = [collection |-> ""]]
    /\ issued' = IF res.tag = "Ok"
                   THEN Put(issued, GitProject.slug,
                            Append(Get(issued, GitProject.slug, <<>>), res.handle))
                 ELSE issued
    /\ UNCHANGED <<state, committed, projects, tickets, shadow, registry>>

\* create_ticket goes on to its next step.
GitTicketGoesOn(h, g, step, ticket_id) ==
    /\ git' = [g EXCEPT !.calls = Put(@, h, [step |-> step, ticket_id |-> ticket_id])]
    /\ last' = [Call("create_ticket_" \o step, h, "", <<>>, Res("Pending", 0, 0))
                  EXCEPT !.changes = [collection |-> ""]]
    /\ UNCHANGED <<state, committed, projects, tickets, issued, shadow, registry>>

\* latest(ticket_counter) and its parse
CallGitTicketRead(h) ==
    /\ GitIsOpen(h)
    /\ h \notin DOMAIN git.calls
    /\ TicketRoom
    /\ LET ticket_counter == GitTicketCounter(git, h)
       IN IF ticket_counter = ParseError THEN GitTicketReturns(h, git, Error("Malformed"))
          ELSE GitTicketGoesOn(h, git, "commit", ticket_counter + 1)

\* record_builder(ticket_counter).commit(ticket_id)
CallGitTicketCommit(h, outcome) ==
    /\ h \in DOMAIN git.calls
    /\ git.calls[h].step = "commit"
    /\ LET out == GitRecordBuilder_commit(git, h, GitCounterPath,
                                          to_string(git.calls[h].ticket_id), <<>>, outcome)
       IN IF out.res.tag # "Ok" THEN GitTicketReturns(h, out.git, out.res)
          ELSE GitTicketGoesOn(h, out.git, "find", git.calls[h].ticket_id)

\* the set_find of set_add(tickets, ticket_id)
CallGitTicketFind(h) ==
    /\ h \in DOMAIN git.calls
    /\ git.calls[h].step = "find"
    /\ LET found == GitSetFind(git, h, GitTicketsPath, to_string(git.calls[h].ticket_id))
       IN IF found.tag \in ErrorKinds THEN GitTicketReturns(h, git, found)
          ELSE IF found.tag = "Ok" THEN GitTicketReturns(h, git, Error("Malformed"))
          ELSE GitTicketGoesOn(h, git, "add", git.calls[h].ticket_id)

\* the set_add_unchecked of set_add(tickets, ticket_id), and the Ticket
CallGitTicketAdd(h, outcome) ==
    /\ h \in DOMAIN git.calls
    /\ git.calls[h].step = "add"
    /\ LET out == GitRemote_set_add_unchecked(git, h, GitTicketsPath,
                                              to_string(git.calls[h].ticket_id), outcome)
       IN IF out.res.tag # "Ok" THEN GitTicketReturns(h, out.git, out.res)
          ELSE GitTicketReturns(h, out.git, Handle(Ticket(GitProject, git.calls[h].ticket_id)))

\* Two handles opened in one process.
GitTicketHandles == {"a", "b"}

NextGitTickets ==
    \/ \E h \in GitTicketHandles : CallGitOpenRepo(h)
    \/ \E h \in GitTicketHandles : CallGitOpenTags(h)
    \/ \E h \in GitTicketHandles, o \in {"ok", "error"} : CallGitOpenPush(h, o)
    \/ \E h \in GitTicketHandles : CallGitTicketRead(h)
    \/ \E h \in GitTicketHandles, o \in GitPushOutcomes : CallGitTicketCommit(h, o)
    \/ \E h \in GitTicketHandles : CallGitTicketFind(h)
    \/ \E h \in GitTicketHandles, o \in GitPushOutcomes : CallGitTicketAdd(h, o)

SpecGitTickets == Init /\ [][NextGitTickets]_vars

(***************************************************************************)
(* Properties of the set layer                                             *)
(***************************************************************************)
\* Position in a newest-first walk of the newest record with this message
\* (0: the walk holds no such record).
NewestPos(w, m) ==
    IF \E i \in 1..Len(w) : w[i].message = m
      THEN CHOOSE i \in 1..Len(w) :
             /\ w[i].message = m
             /\ \A j \in 1..(i - 1) : w[j].message # m
    ELSE 0

\* The messages whose newest record is an Add.
PresentMessages(st, collection) ==
    LET w == WalkSet(st, collection) IN
    {m \in {w[i].message : i \in 1..Len(w)} : w[NewestPos(w, m)].op = "Add"}

MessagesOf(st, ids) == {st.records[ids[k]].message : k \in 1..Len(ids)}

\* C1: after any sequence of set operations, the messages of
\* set_get_all(c) are exactly the messages whose newest record is an Add.
C1_GetAllIsMembership ==
    \A c \in Collections :
        /\ set_get_all(state, c).tag = "Ok"
        /\ MessagesOf(state, set_get_all(state, c).items) = PresentMessages(state, c)

\* C2: set_find(c, m) is Ok(r) when the newest record r of m is an Add,
\* Err(Some(r)) when it is a Del, Err(None) when m has no record; a set
\* holding only a Del has Err(Some(tombstone)) and an empty set_get_all.
C2_SetFindNewest ==
    \A c \in Collections :
        LET w == WalkSet(state, c) IN
        /\ \A m \in Messages :
             LET i == NewestPos(w, m)
                 f == set_find(state, c, m)
             IN /\ i = 0 => f = Res("ErrNone", 0, 0)
                /\ (i # 0 /\ w[i].op = "Add") => f = Res("Ok", w[i].id, 0)
                /\ (i # 0 /\ w[i].op = "Del") => f = Res("ErrSome", w[i].id, 0)
        /\ (Len(w) = 1 /\ w[1].op = "Del") =>
             /\ set_find(state, c, w[1].message) = Res("ErrSome", w[1].id, 0)
             /\ set_get_all(state, c) = [tag |-> "Ok", items |-> <<>>]

C2_Witness ==
    LET w == WalkSet(state, "coll") IN
    /\ Len(w) = 1
    /\ w[1].op = "Del"
    /\ last.op = "set_del_unchecked"
    /\ last.res.tag = "Ok"

\* C3: set_add(c, m) on a present m returns the existing Add record as the
\* inner Err and appends nothing: walk_set and membership are unchanged.
C3_SetAddPresentNoWrite ==
    [][\A c \in Collections, m \in Messages :
         (/\ last'.op = "set_add" /\ last'.target = c /\ last'.arg = m
          /\ m \in PresentMessages(state, c))
         => LET w == WalkSet(state, c) IN
            /\ last'.res = Res("Err", w[NewestPos(w, m)].id, 0)
            /\ WalkSet(state', c) = w
            /\ Len(WalkSet(state', c)) = Len(w)
            /\ PresentMessages(state', c) = PresentMessages(state, c)
            /\ state' = state]_vars

C3_Witness ==
    /\ last.op = "set_add"
    /\ last.res.tag = "Err"
    /\ last.arg \in PresentMessages(state, "coll")
    /\ Len(WalkSet(state, "coll")) >= 2

\* C4: walk_set_present(c) yields, newest first, exactly the newest record
\* of every message whose newest record is an Add, and no message twice.
C4_WalkPresent ==
    \A c \in Collections :
        LET w == WalkSet(state, c)
            p == walk_set_present(state, c)
            pos(id) == CHOOSE i \in 1..Len(w) : w[i].id = id
            expected == {i \in 1..Len(w) :
                           w[i].op = "Add" /\ NewestPos(w, w[i].message) = i}
        IN /\ p.tag = "Ok"
           /\ {p.items[k] : k \in 1..Len(p.items)} = {w[i].id : i \in expected}
           /\ Len(p.items) = Cardinality(expected)
           /\ \A k, l \in 1..Len(p.items) :
                k < l => /\ pos(p.items[k]) < pos(p.items[l])
                         /\ w[pos(p.items[k])].message # w[pos(p.items[l])].message

C4_Witness ==
    LET w == WalkSet(state, "coll")
        p == walk_set_present(state, "coll")
    IN /\ Len(p.items) = 1
       /\ \E i, j \in 1..Len(w) :
            i < j /\ w[i].message = w[j].message /\ w[i].op = "Add" /\ w[j].op = "Add"
       /\ \E i \in 1..Len(w) : w[i].op = "Del" /\ NewestPos(w, w[i].message) = i

(***************************************************************************)
(* Properties of projects and tickets                                      *)
(***************************************************************************)
CounterPath(slug) == "meta/project/" \o slug \o "/ticket_counter"

TicketsPath(slug) == "project/" \o slug \o "/tickets"

\* The ticket_counter messages as numbers, oldest first.
CounterValues(st, slug) ==
    LET w == Walk(st, CounterPath(slug)) IN
    [i \in 1..Len(w) |-> ParseU64(w[Len(w) + 1 - i].message)]

CounterMessages(st, slug) ==
    LET w == Walk(st, CounterPath(slug)) IN
    [i \in 1..Len(w) |-> w[Len(w) + 1 - i].message]

\* The handles create_ticket returned for the project, in call order.
IssuedHandles(slug) == SelectSeq(Get(issued, slug, <<>>), LAMBDA h : h # NoHandle)

\* C5: after any sequence of create_ticket calls, failed ones included, the
\* ticket_counter messages read oldest to newest are decimal integers that
\* strictly increase: none repeated, none going backward.
C5_CounterStrictlyIncreasing ==
    \A s \in ProjectSlugs :
        LET v == CounterValues(state, s)
            m == CounterMessages(state, s)
        IN /\ \A i \in 1..Len(v) :
                /\ v[i] # ParseError
                /\ \A k \in 1..Len(m[i]) : IsDigit(Char(m[i], k))
           /\ \A i, j \in 1..Len(v) : i < j => v[i] < v[j]

C5_Witness ==
    \E s \in ProjectSlugs :
        /\ Len(CounterValues(state, s)) >= 2
        /\ \E i \in 1..Len(Get(issued, s, <<>>)) : issued[s][i] = NoHandle
        /\ last.op = "create_ticket"
        /\ last.target = s

\* C6 as stated: the returned ids strictly increase and lie in 1..M for
\* the final counter value M >= N; the first ticket issued has id 1 and
\* slug "<project>-1"; without a failed call the ids are 1, 2, ..., N.
C6_FirstTicketIsOne ==
    \A s \in ProjectSlugs :
        LET h == IssuedHandles(s)
            v == CounterValues(state, s)
        IN /\ \A i, j \in 1..Len(h) : i < j => h[i].id < h[j].id
           /\ Len(h) > 0 =>
                /\ Len(v) >= Len(h)
                /\ \A i \in 1..Len(h) : h[i].id \in 1..v[Len(v)]
                /\ h[1].id = 1
                /\ h[1].slug = s \o "-1"
           /\ (\A i \in 1..Len(Get(issued, s, <<>>)) : issued[s][i] # NoHandle)
                => \A i \in 1..Len(h) : h[i].id = i

\* C6 (amended): the returned ids strictly increase and lie in 1..M for
\* the final counter value M >= N, each slug is "<project>-<id>"; the
\* first ticket issued has id 1 and slug "<project>-1" unless an earlier
\* call failed after advancing the counter; without such a failed call
\* the ids are 1, 2, ..., N.
C6_IssuedIds ==
    \A s \in ProjectSlugs :
        LET h == IssuedHandles(s)
            v == CounterValues(state, s)
            all == Get(issued, s, <<>>)
        IN /\ \A i, j \in 1..Len(h) : i < j => h[i].id < h[j].id
           /\ Len(h) > 0 =>
                /\ Len(v) >= Len(h)
                /\ v[Len(v)] >= Len(h)
                /\ \A i \in 1..Len(h) :
                     /\ h[i].id \in 1..v[Len(v)]
                     /\ \E k \in 1..Len(h[i].slug) :
                          /\ SubSeq(h[i].slug, 1, k) = s \o "-"
                          /\ ParseU64(SubSeq(h[i].slug, k + 1, Len(h[i].slug))) = h[i].id
           /\ (Len(all) > 0 /\ all[1] # NoHandle) =>
                /\ h[1].id = 1
                /\ h[1].slug = s \o "-1"
           /\ (\A i \in 1..Len(all) : all[i] # NoHandle)
                => \A i \in 1..Len(h) : h[i].id = i

C6_Witness ==
    \E s \in ProjectSlugs :
        /\ Len(Get(issued, s, <<>>)) >= 2
        /\ issued[s][1] = NoHandle
        /\ Len(IssuedHandles(s)) >= 1
        /\ IssuedHandles(s)[1].id = 2

\* C7: a create_ticket whose counter push fails changes neither the
\* ticket_counter nor the tickets set; one whose counter push succeeds and
\* whose tickets push fails leaves the counter advanced by one record and
\* the tickets set as it was; a call whose pushes both succeed returns the
\* ticket with the id after the latest counter value, also right after a
\* failed call.
C7_CreateTicketFailures ==
    [][\A s \in ProjectSlugs :
         (last'.op = "create_ticket" /\ last'.target = s /\ last' # last) =>
           LET counter == Walk(state, CounterPath(s))
               counter2 == Walk(state', CounterPath(s))
               next == IF counter = <<>> THEN 1 ELSE ParseU64(counter[1].message) + 1
               o == last'.outcomes
           IN /\ o[1] # "ok" =>
                   /\ last'.res.tag \in {"NotPushed", "PushFailed"}
                   /\ counter2 = counter
                   /\ Walk(state', TicketsPath(s)) = Walk(state, TicketsPath(s))
                   /\ state' = state
              /\ (o[1] = "ok" /\ o[2] # "ok") =>
                   /\ last'.res.tag \in {"NotPushed", "PushFailed"}
                   /\ Len(counter2) = Len(counter) + 1
                   /\ SubSeq(counter2, 2, Len(counter2)) = counter
                   /\ ParseU64(counter2[1].message) = next
                   /\ Walk(state', TicketsPath(s)) = Walk(state, TicketsPath(s))
                   /\ Project_ticket(state', Project(s), next).tag = "NotFound"
              /\ (o[1] = "ok" /\ o[2] = "ok") =>
                   /\ last'.res.tag = "Ok"
                   /\ last'.res.handle.id = next
                   /\ ParseU64(counter2[1].message) = next
                   /\ PresentMessages(state', TicketsPath(s))
                        = PresentMessages(state, TicketsPath(s)) \cup {counter2[1].message}
                   /\ Project_ticket(state', Project(s), next) = last'.res]_vars

C7_Witness ==
    \E s \in ProjectSlugs :
        /\ last.op = "create_ticket"
        /\ last.target = s
        /\ last.res.tag = "Ok"
        /\ Len(issued[s]) >= 2
        /\ issued[s][Len(issued[s]) - 1] = NoHandle
        /\ last.res.handle.id = Len(issued[s])

\* C8: create_project(s) returns the handle and appends one Add record
\* exactly when s is not in meta/projects, else returns the existing Add
\* record and writes nothing; delete_project(s) returns the new Del record
\* exactly when s is present, else Err(Some(prior Del)) or Err(None) and
\* writes nothing.  (A failed push is the outer error and writes nothing.)
C8_ProjectLifecycle ==
    [][\A s \in ProjectSlugs :
         (last'.target = s /\ last' # last) =>
           LET w == WalkSet(state, "meta/projects")
               w2 == WalkSet(state', "meta/projects")
               n == NewestPos(w, s)
               present == n # 0 /\ w[n].op = "Add"
               pushed == last'.outcomes[1] = "ok"
               appended(op) == /\ Len(w2) = Len(w) + 1
                               /\ SubSeq(w2, 2, Len(w2)) = w
                               /\ w2[1].message = s
                               /\ w2[1].op = op
           IN /\ last'.op = "create_project" =>
                   /\ present =>
                        /\ last'.res = Res("Err", w[n].id, 0)
                        /\ state'.records[last'.res.rec].message = s
                        /\ state' = state
                   /\ (~present /\ pushed) =>
                        /\ last'.res = Handle(Project(s))
                        /\ appended("Add")
                   /\ (~present /\ ~pushed) =>
                        /\ last'.res.tag \in {"NotPushed", "PushFailed"}
                        /\ state' = state
              /\ last'.op = "delete_project" =>
                   /\ (present /\ pushed) =>
                        /\ appended("Del")
                        /\ last'.res = Res("Ok", w2[1].id, 0)
                   /\ (present /\ ~pushed) =>
                        /\ last'.res.tag \in {"NotPushed", "PushFailed"}
                        /\ state' = state
                   /\ (~present /\ n # 0) =>
                        /\ last'.res = Res("ErrSome", w[n].id, 0)
                        /\ state' = state
                   /\ n = 0 =>
                        /\ last'.res = Res("ErrNone", 0, 0)
                        /\ state' = state]_vars

\* create, create, delete, create has been played and gave
\* Ok, Err(existing), Ok, Ok.
C8_Witness ==
    \E s \in ProjectSlugs :
        LET w == WalkSet(state, "meta/projects") IN
        /\ Len(w) = 3
        /\ \A i \in 1..3 : w[i].message = s
        /\ w[3].op = "Add" /\ w[2].op = "Del" /\ w[1].op = "Add"
        /\ last.op = "create_project"
        /\ last.res = Handle(Project(s))

\* What a ticket reads back, against what the caller wrote to it.
ReadsBack(st, ticket) ==
    LET title == Ticket_title(st, ticket)
        comments == Ticket_comments(st, ticket)
        deps == Ticket_dependencies(st, ticket)
        wrote == Written(ticket.slug)
    IN /\ (IF title = 0 THEN <<>> ELSE <<st.records[title].message>>) = wrote.title
       /\ [i \in 1..Len(comments) |-> comments[i].message] = Reverse(wrote.comments)
       /\ Ticket_state(st, ticket).tag = "Ok"
       /\ Ticket_state(st, ticket).state = wrote.state
       /\ deps.tag = "Ok"
       /\ {deps.items[k] : k \in 1..Len(deps.items)} = wrote.deps

\* Every lookup of a project and of its issued tickets, in one state.
LookupsFollowMembership ==
    \A s \in ProjectSlugs :
        LET h == IssuedHandles(s)
            present == s \in PresentMessages(state, "meta/projects")
        IN /\ ~present =>
                /\ Workspace_project(state, s).tag = "NotFound"
                /\ \A i \in 1..Len(h) : Workspace_ticket(state, h[i].slug).tag = "NotFound"
                /\ \A n \in 1..MaxCounter :
                     Workspace_ticket(state, s \o "-" \o Digits[n + 1]).tag = "NotFound"
           /\ present =>
                /\ Workspace_project(state, s) = Handle(Project(s))
                /\ \A i \in 1..Len(h) :
                     /\ Workspace_ticket(state, h[i].slug) = Handle(h[i])
                     /\ ReadsBack(state, Workspace_ticket(state, h[i].slug).handle)

\* C9: delete_project(s) changes only meta/projects; while s is deleted,
\* project(s) and ticket("s-n") fail with NotFound; once s is created
\* again every ticket issued before is found with the title, comments,
\* state and dependencies written to it, and a later create_ticket returns
\* an id above every id issued before.
C9_DeleteKeepsTickets ==
    /\ []LookupsFollowMembership
    /\ [][/\ (last'.op = "delete_project" /\ last' # last) =>
              /\ \A c \in (DOMAIN state.heads) \ {"meta/projects"} :
                   Walk(state', c) = Walk(state, c)
              /\ (DOMAIN state'.heads) \subseteq (DOMAIN state.heads) \cup {"meta/projects"}
              /\ \A id \in DOMAIN state.records : state'.records[id] = state.records[id]
              /\ UNCHANGED <<projects, tickets, issued, shadow>>
         /\ \A s \in ProjectSlugs :
              (last'.op = "create_ticket" /\ last'.target = s /\ last' # last
               /\ last'.res.tag = "Ok") =>
                 \A i \in 1..Len(IssuedHandles(s)) :
                     IssuedHandles(s)[i].id < last'.res.handle.id]_vars

\* A project deleted and created again, holding a ticket with a title
\* that was issued before the deletion.
C9_Witness ==
    \E s \in ProjectSlugs :
        LET w == WalkSet(state, "meta/projects")
            h == IssuedHandles(s)
        IN /\ \E i, j \in 1..Len(w) :
                /\ i < j
                /\ w[i].message = s /\ w[i].op = "Add"
                /\ w[j].message = s /\ w[j].op = "Del"
                /\ Len(h) > 0
                /\ \E k \in DOMAIN state.records :
                     /\ state.records[k].message = "1"
                     /\ state.records[k].op = "Add"
                     /\ k < w[j].id
           /\ Len(h) > 0
           /\ Written(h[1].slug).title # <<>>
           /\ Workspace_ticket(state, h[1].slug) = Handle(h[1])

C11_RecordsImmutable ==
    /\ [](last.res.tag = "Ok" /\ last.op \in {"commit", "set_add_unchecked", "set_del_unchecked"}
            => /\ get_record(state, last.res.rec).tag = "Some"
               /\ get_record(state, last.res.rec).record.id = last.res.rec
               /\ get_record(state, last.res.rec).record.message = last.arg)
    /\ [][\A id \in 1..state.total_ids :
            /\ get_record(state, id).tag = "Some"
            /\ get_record(state', id) = get_record(state, id)
            /\ \A n \in Names :
                 Record_attachment(state', id, n) = Record_attachment(state, id, n)]_vars

\* An older record of a collection still holds bytes that a later commit
\* to the same collection replaced or removed.
C11_Witness ==
    \E c \in LogCollections :
        LET w == Walk(state, c) IN
        /\ Len(w) >= 2
        /\ \E n \in Names :
             /\ Record_attachment(state, w[2].id, n) = 1
             /\ Record_attachment(state, w[1].id, n) # 1
             /\ get_record(state, w[2].id).record.attachments[n] = 1

(***************************************************************************)
(* Properties of lookups                                                   *)
(***************************************************************************)
\* The ids a lookup is tried with: never issued (0 and above the counter),
\* issued, and skipped ones.
LookupIds == 0..(MaxCounter + 1)

\* C12 as stated: Project::ticket(id), on a handle the caller holds, and
\* Workspace::ticket("<project>-<id>") return a handle exactly when the
\* project is in meta/projects and the id is in its tickets set.
C12_LookupsNeedProject ==
    \A p \in projects : \A n \in LookupIds :
        LET found == /\ p.slug \in PresentMessages(state, "meta/projects")
                     /\ to_string(n) \in PresentMessages(state, TicketsPath(p.slug))
        IN /\ Project_ticket(state, p, n).tag = "Ok" <=> found
           /\ Workspace_ticket(state, p.slug \o "-" \o to_string(n)).tag = "Ok" <=> found

\* C12 (amended): Workspace::ticket("<project>-<id>") returns the handle
\* exactly when the project is in meta/projects and the id is in its
\* tickets set, Project::ticket(id) exactly when the id is in the tickets
\* set of the handle's project (deleted or not), and both give NotFound
\* otherwise; an id never issued or skipped by a failed create_ticket is
\* NotFound; every ticket create_ticket returned is found by
\* Project::ticket, and by Workspace::ticket while the project is present,
\* with the same id and slug.
C12_TicketLookups ==
    \A s \in ProjectSlugs :
        LET present == s \in PresentMessages(state, "meta/projects")
            ids == {to_string(n) : n \in LookupIds} \cap PresentMessages(state, TicketsPath(s))
            h == IssuedHandles(s)
            issuedIds == {h[i].id : i \in 1..Len(h)}
            v == CounterValues(state, s)
        IN /\ \A n \in LookupIds :
                LET byId == Project_ticket(state, Project(s), n)
                    bySlug == Workspace_ticket(state, s \o "-" \o to_string(n))
                IN /\ byId = (IF to_string(n) \in ids
                                THEN Handle(Ticket(Project(s), n)) ELSE Error("NotFound"))
                   /\ bySlug = (IF present /\ to_string(n) \in ids
                                  THEN Handle(Ticket(Project(s), n)) ELSE Error("NotFound"))
                   /\ (n \notin issuedIds) => byId.tag = "NotFound" /\ bySlug.tag = "NotFound"
           /\ \A i \in 1..Len(h) :
                /\ Project_ticket(state, Project(s), h[i].id) = Handle(h[i])
                /\ present => Workspace_ticket(state, h[i].slug) = Handle(h[i])
                /\ Project_ticket(state, Project(s), h[i].id).handle.slug
                     = s \o "-" \o to_string(h[i].id)
           /\ \A i \in 1..Len(v) :
                v[i] \notin issuedIds => Project_ticket(state, Project(s), v[i]).tag = "NotFound"

\* A deleted project whose handle still finds the ticket issued after a
\* skipped id.
C12_Witness ==
    \E p \in projects :
        LET h == IssuedHandles(p.slug)
            v == CounterValues(state, p.slug)
        IN /\ p.slug \notin PresentMessages(state, "meta/projects")
           /\ Len(h) >= 1
           /\ Len(v) > Len(h)
           /\ Project_ticket(state, p, h[1].id) = Handle(h[1])
           /\ Workspace_ticket(state, h[1].slug).tag = "NotFound"

\* Slugs without a '-'.
UndashedSlugs == {"", "P", "P1", "7"}

\* Slugs whose part after the last '-' is no unsigned integer, each with
\* its part before the last '-'.
UnnumberedSlugs ==
    {<<"P-", "P">>, <<"P-x", "P">>, <<"P-1x", "P">>, <<"P- 1", "P">>, <<"P--", "P-">>,
     <<"Q-7-", "Q-7">>, <<"Q-7-x", "Q-7">>, <<"Q-7--1", "Q-7-">>, <<"P-1-", "P-1">>,
     <<"R-x", "R">>, <<"-", "">>, <<"-x", "">>}

\* C13 as stated: Workspace::ticket fails with Malformed for every slug
\* that has no '-' or whose part after the last '-' is no unsigned
\* integer, whatever the state of the workspace.
C13_MalformedAlways ==
    /\ \A slug \in UndashedSlugs : Workspace_ticket(state, slug).tag = "Malformed"
    /\ \A u \in UnnumberedSlugs : Workspace_ticket(state, u[1]).tag = "Malformed"

\* C13 (amended): a slug without '-' fails with Malformed in every state;
\* a slug whose part after the last '-' is no unsigned integer fails with
\* Malformed when the part before the last '-' is a project in
\* meta/projects, and with NotFound when it is not.
C13_MalformedSlug ==
    /\ \A slug \in UndashedSlugs : Workspace_ticket(state, slug).tag = "Malformed"
    /\ \A u \in UnnumberedSlugs :
         Workspace_ticket(state, u[1]).tag =
             (IF u[2] \in PresentMessages(state, "meta/projects")
                THEN "Malformed" ELSE "NotFound")

\* The project "Q-7" exists and holds a ticket, "P" does not exist.
C13_Witness ==
    /\ "Q-7" \in PresentMessages(state, "meta/projects")
    /\ "P" \notin PresentMessages(state, "meta/projects")
    /\ Workspace_ticket(state, "Q-7-1").tag = "Ok"
    /\ Workspace_ticket(state, "Q-7-x").tag = "Malformed"
    /\ Workspace_ticket(state, "P-x").tag = "NotFound"

(***************************************************************************)
(* Properties of project creation                                          *)
(***************************************************************************)
\* C14: Workspace::create_project and Project::create_project called with
\* a slug containing '/' or whitespace fail with MalformedProjectSlug and
\* write nothing: the store is the same before and after; a slug without
\* such a character is never rejected as malformed.
C14_BadSlugNoWrite ==
    [][(last'.op \in {"create_project", "create_subproject"} /\ last' # last) =>
         /\ last'.target \in BadSlugs =>
              /\ last'.res.tag = "MalformedProjectSlug"
              /\ state' = state
              /\ \A c \in DOMAIN state.heads : Walk(state', c) = Walk(state, c)
              /\ projects' = projects
         /\ last'.target \in ProjectSlugs => last'.res.tag # "MalformedProjectSlug"]_vars

\* A sub-project call with a bad slug was refused on a workspace that
\* holds a project with a sub-project.
C14_Witness ==
    /\ last.op = "create_subproject"
    /\ last.target \in BadSlugs
    /\ last.res.tag = "MalformedProjectSlug"
    /\ Len(Walk(state, "meta/projects")) >= 2
    /\ \E s \in ProjectSlugs : Walk(state, "meta/project/" \o s \o "/parent") # <<>>

(***************************************************************************)
(* More properties of the set layer                                        *)
(***************************************************************************)
\* C15 as stated: set_del(c, m) followed by set_add(c, m), both returning,
\* leaves the messages of set_get_all(c) as they were before the set_del,
\* for any message m.
C15_DelAddRestores ==
    [][\A c \in Collections :
         (last'.op = "set_del_add" /\ last'.target = c /\ last' # last
          /\ last'.res.tag \notin ErrorKinds) =>
            MessagesOf(state', set_get_all(state', c).items)
              = MessagesOf(state, set_get_all(state, c).items)]_vars

\* C15 (amended): set_del(c, m) followed by set_add(c, m), both returning,
\* leaves the messages of set_get_all(c) as they were before the set_del
\* when m was present (a Del and an Add record are appended); when m was
\* absent the set_del writes nothing and the set_add adds m, so the
\* messages afterwards are those before plus m.
C15_DelAddRestoresPresent ==
    [][\A c \in Collections :
         (last'.op = "set_del_add" /\ last'.target = c /\ last' # last
          /\ last'.res.tag \notin ErrorKinds) =>
            LET before == MessagesOf(state, set_get_all(state, c).items)
                after == MessagesOf(state', set_get_all(state', c).items)
                w == WalkSet(state, c)
                w2 == WalkSet(state', c)
                m == last'.arg
            IN /\ m \in PresentMessages(state, c) =>
                    /\ after = before
                    /\ Len(w2) = Len(w) + 2
                    /\ w2[1].op = "Add" /\ w2[2].op = "Del"
                    /\ w2[1].message = m /\ w2[2].message = m
                    /\ last'.res.tag = "Ok"
               /\ m \notin PresentMessages(state, c) =>
                    /\ after = before \cup {m}
                    /\ Len(w2) = Len(w) + 1
                    /\ w2[1].op = "Add" /\ w2[1].message = m
                    /\ last'.res.tag = "Ok"]_vars

\* The pair has run on a present message of a set that holds another
\* message as well.
C15_Witness ==
    \E c \in Collections :
        LET w == WalkSet(state, c) IN
        /\ last.op = "set_del_add"
        /\ last.res.tag = "Ok"
        /\ Len(w) >= 4
        /\ w[1].op = "Add" /\ w[2].op = "Del" /\ w[3].op = "Add"
        /\ w[1].message = last.arg /\ w[2].message = last.arg
        /\ w[3].message = last.arg
        /\ w[4].message # last.arg
        /\ Len(set_get_all(state, c).items) = 2

\* C16: set_del(c, m) on a present m appends exactly one Del record of m
\* and returns it with the Add record that made m present; on an absent m
\* it appends nothing and returns Err(Some(the Del record of m)) when m has
\* a tombstone, else Err(None).  (A failed push is the outer error and
\* appends nothing.)
C16_SetDel ==
    [][\A c \in Collections :
         (last'.op = "set_del" /\ last'.target = c /\ last' # last) =>
            LET w == WalkSet(state, c)
                w2 == WalkSet(state', c)
                m == last'.arg
                n == NewestPos(w, m)
                present == n # 0 /\ w[n].op = "Add"
                pushed == last'.outcomes[1] = "ok"
            IN /\ (present /\ pushed) =>
                    /\ Len(w2) = Len(w) + 1
                    /\ SubSeq(w2, 2, Len(w2)) = w
                    /\ w2[1].op = "Del" /\ w2[1].message = m
                    /\ last'.res = Res("Ok", w2[1].id, w[n].id)
               /\ (present /\ ~pushed) =>
                    /\ last'.res.tag \in {"NotPushed", "PushFailed"}
                    /\ state' = state
               /\ (~present /\ n # 0) =>
                    /\ last'.res = Res("ErrSome", w[n].id, 0)
                    /\ w[n].op = "Del"
                    /\ w2 = w /\ state' = state
               /\ n = 0 =>
                    /\ last'.res = Res("ErrNone", 0, 0)
                    /\ w2 = w /\ state' = state]_vars

\* set_del removed a message that had been added, removed and added
\* again: the Add record returned is the second one.
C16_Witness ==
    \E c \in Collections :
        LET w == WalkSet(state, c) IN
        /\ last.op = "set_del" /\ last.target = c
        /\ last.res.tag = "Ok"
        /\ Len(w) = 4
        /\ \A i \in 1..4 : w[i].message = last.arg
        /\ last.res.rec = w[1].id
        /\ last.res.aux = w[2].id
        /\ w[3].op = "Del" /\ w[4].op = "Add"

\* The ids of the records that make a message present, newest first: the
\* Add records that are the newest record of their message.
PresentIds(w) ==
    LET keep(i) == w[i].op = "Add" /\ NewestPos(w, w[i].message) = i
        RECURSIVE from(_)
        from(i) == IF i > Len(w) THEN <<>>
                   ELSE IF keep(i) THEN <<w[i].id>> \o from(i + 1)
                   ELSE from(i + 1)
    IN from(1)

\* C17: set_get_all(c) returns the present records oldest addition first
\* (in log order of each message's newest Add record), and
\* set_get_all_reverse(c) returns the same records in the reverse order.
C17_GetAllOrder ==
    \A c \in Collections :
        /\ set_get_all(state, c).tag = "Ok"
        /\ set_get_all_reverse(state, c).tag = "Ok"
        /\ set_get_all(state, c).items = Reverse(PresentIds(WalkSet(state, c)))
        /\ set_get_all_reverse(state, c).items = Reverse(set_get_all(state, c).items)

\* C18: Ticket::state is (Open, None) while the ticket has no state record;
\* right after a successful set_state it is the state of that call with the
\* record the call returned, and it stays so until the next record is
\* written to the ticket's state collection; is_open and is_closed answer
\* with opposite values whenever they answer; and a latest state message
\* other than "open" or "closed" gives Malformed, for both of them too.
C18_TicketState ==
    /\ [](\A t \in tickets :
            LET id == Latest(state, t.path \o "/state")
                s == Ticket_state(state, t)
                io == Ticket_is_open(state, t)
                ic == Ticket_is_closed(state, t)
            IN /\ id = 0 => s = [tag |-> "Ok", state |-> "Open", rec |-> 0] /\ io.val
               /\ (id # 0 /\ state.records[id].message \notin {"open", "closed"})
                    => s.tag = "Malformed" /\ io.tag = "Malformed" /\ ic.tag = "Malformed"
               /\ (id # 0 /\ state.records[id].message \in {"open", "closed"})
                    => io.tag = "Ok" /\ ic.tag = "Ok" /\ io.val # ic.val
               /\ (last.op = "set_state" /\ last.res.tag = "Ok" /\ last.target = t.slug)
                    => s = [tag |-> "Ok", state |-> last.arg, rec |-> last.res.rec])
    /\ [][\/ state' = state
          \/ \A t \in tickets :
               ~(last'.op \in {"set_state", "commit_state"} /\ last'.target = t.slug)
                 => Ticket_state(state', t) = Ticket_state(state, t)]_vars

\* a second set_state on a ticket, reopening it after it was closed
C18_Witness ==
    /\ last.op = "set_state" /\ last.res.tag = "Ok" /\ last.arg = "Open"
    /\ state.records[last.res.rec].parent # 0
    /\ state.records[state.records[last.res.rec].parent].message = "closed"

\* What the reads of one ticket return: title, state, comments, dependencies
\* and, on each backend, every attachment.
TicketView(st, t) ==
    [title |-> Ticket_title(st, t),
     state |-> Ticket_state(st, t),
     comments |-> Ticket_comments(st, t),
     dependencies |-> Ticket_dependencies(st, t),
     attachments |-> [n \in AttachmentNames, b \in Backends |-> Ticket_attachment(st, t, n, b)]]

\* C19: a call that writes to one ticket (set_title, set_state, add_comment,
\* upsert_attachment, the removal of an attachment, add_dependency, a state
\* record committed directly) leaves what every other ticket's title, state,
\* comments, attachments and dependencies read as unchanged: the other
\* ticket of project "P" and the ticket of project "Q-7" alike.
C19_OtherTicketsUnchanged ==
    [][\/ state' = state
       \/ \A t \in tickets :
            last'.target # t.slug => TicketView(state', t) = TicketView(state, t)]_vars

\* a successful write to the ticket of "Q-7" while ticket P-1 holds an
\* attachment
C19_Witness ==
    /\ last.target = "Q-7-1" /\ last.res.tag = "Ok" /\ last.op = "set_title"
    /\ Ticket_attachment(state, Ticket(Project("P"), 1), "f", "memory").data # NoBlob

\* Record::attachment of one record on a backend.
RecordAttachmentOn(st, id, name, backend) ==
    IF backend = "git" THEN GitRecord_attachment(st, id, name)
    ELSE MemoryRecord_attachment(st, id, name)

\* C20: on both backends, Ticket::attachment(name) is None while the ticket
\* has no attachment record; right after upsert_attachment(name, bytes) it
\* is Some(bytes); right after a removal of a name that was held it is None,
\* not an error; and the record an upsert returned answers its own
\* attachment(name) with the bytes of that upsert, then and ever after.
C20_Attachment ==
    /\ [](\A t \in tickets, n \in AttachmentNames, b \in Backends :
            LET id == Latest(state, t.path \o "/attachment")
                mine == last.res.tag = "Ok" /\ last.target = t.slug /\ last.arg = n
            IN /\ id = 0 => Ticket_attachment(state, t, n, b) = [tag |-> "Ok", data |-> NoBlob]
               /\ (last.op = "upsert_attachment" /\ mine)
                    => /\ Ticket_attachment(state, t, n, b)
                            = [tag |-> "Ok", data |-> last.changes[n]]
                       /\ RecordAttachmentOn(state, last.res.rec, n, b)
                            = [tag |-> "Ok", data |-> last.changes[n]]
               /\ (/\ last.op = "remote_attachment" /\ mine
                   /\ state.records[last.res.rec].parent # 0
                   /\ n \in DOMAIN state.records[state.records[last.res.rec].parent].attachments)
                    => Ticket_attachment(state, t, n, b) = [tag |-> "Ok", data |-> NoBlob])
    /\ [][\A id \in DOMAIN state.records, n \in AttachmentNames, b \in Backends :
            RecordAttachmentOn(state', id, n, b) = RecordAttachmentOn(state, id, n, b)]_vars

\* The attachment of a name in a map, NoBlob when the map lacks the name.
AttachmentIn(map, n) == IF n \in DOMAIN map THEN map[n] ELSE NoBlob

\* C21: the attachment map of a record a commit creates is the map of the
\* collection's previous head (empty without one) overlaid with the
\* builder's calls: an upserted name holds the new bytes, a removed name is
\* gone, and every name the builder did not touch is as in the previous
\* head, so a commit without attachment calls carries the map unchanged.
C21_AttachmentOverlay ==
    [][(last'.res.tag = "Ok" /\ state' # state)
         => LET prev == Get(state.heads, last'.target, 0)
                base == IF prev = 0 THEN EmptyMap ELSE state.records[prev].attachments
                new == state'.records[last'.res.rec].attachments
                ch == last'.changes
            IN /\ DOMAIN new \subseteq Names
               /\ \A n \in Names :
                    AttachmentIn(new, n) = IF n \in DOMAIN ch THEN ch[n]
                                           ELSE AttachmentIn(base, n)]_vars

\* a commit that upserts "f" on a head that holds "g": "g" is carried over
C21_Witness ==
    /\ last.op = "commit" /\ last.res.tag = "Ok"
    /\ DOMAIN last.changes = {"f"} /\ last.changes["f"] # NoBlob
    /\ state.records[last.res.rec].parent # 0
    /\ "g" \in DOMAIN state.records[last.res.rec].attachments

\* The pairs dependencies() returns, as a set.
DepPairs(st, t) ==
    LET d == Ticket_dependencies(st, t) IN {d.items[k] : k \in 1..Len(d.items)}

\* The pair the last call was made with, for a call on dependencies.
LastPair(c) == <<c.changes.origin, c.changes.endpoint>>

\* No record of the ticket's dependencies set lacks the separator.
OnlyPairs(st, t) ==
    \A k \in 1..Len(Walk(st, t.path \o "/dependencies")) :
       Contains(Walk(st, t.path \o "/dependencies")[k].message, {"@"})

\* The ids of the records of the ticket's dependencies set.
DepRecordIds(st, t) ==
    {Walk(st, t.path \o "/dependencies")[k].id :
       k \in 1..Len(Walk(st, t.path \o "/dependencies"))}

\* C22: add_dependency on a pair that is present writes nothing and returns
\* the record of the addition that made it present (the newest record of
\* the pair, an Add); remove_dependency on a pair that is not present
\* writes nothing and returns None; and whenever the set holds only records
\* written by these two calls, dependencies() is exactly the set of pairs
\* whose last successful call was an add.
C22_Dependencies ==
    /\ [](\A t \in tickets :
            (t.slug \in DepHolders /\ OnlyPairs(state, t))
              => /\ Ticket_dependencies(state, t).tag = "Ok"
                 /\ DepPairs(state, t) = Written(t.slug).deps)
    /\ [][\A t \in tickets :
            (/\ last'.target = t.slug
             /\ last'.op \in {"add_dependency", "remove_dependency"}
             /\ ~Contains(last'.changes.origin, {"@"}))
              => /\ (last'.op = "add_dependency"
                     /\ LastPair(last') \in Written(t.slug).deps)
                      => /\ state' = state
                         /\ last'.res.tag = "Ok"
                         /\ last'.res.rec \in DepRecordIds(state, t)
                         /\ state.records[last'.res.rec].op = "Add"
                         /\ state.records[last'.res.rec].message = last'.arg
                         /\ \A id \in DepRecordIds(state, t) :
                              state.records[id].message = last'.arg
                                => id <= last'.res.rec
                 /\ (last'.op = "remove_dependency"
                     /\ LastPair(last') \notin Written(t.slug).deps)
                      => /\ state' = state
                         /\ last'.res.tag = "Ok"
                         /\ last'.res.rec = 0]_vars

\* an add_dependency that found its pair present: the record it returns is
\* older than the newest record of the store
C22_Witness ==
    /\ last.op = "add_dependency" /\ last.res.tag = "Ok"
    /\ last.res.rec < state.total_ids
    /\ \E t \in tickets :
         /\ t.slug = last.target
         /\ Len(Walk(state, t.path \o "/dependencies")) >= 3

\* C23: add_dependency and remove_dependency with an origin that contains
\* '@' fail with MalformedOrigin carrying that origin, and leave the store,
\* so the ticket's dependencies set too, as it was.
C23_MalformedOrigin ==
    [][(/\ last'.op \in {"add_dependency", "remove_dependency"}
        /\ Contains(last'.changes.origin, {"@"}))
         => /\ last'.res = ErrorWith("MalformedOrigin", last'.changes.origin)
            /\ state' = state
            /\ committed' = committed]_vars

\* a removal with origin "a@b" on a ticket that holds dependencies
C23_Witness ==
    /\ last.op = "remove_dependency" /\ last.res.tag = "MalformedOrigin"
    /\ last.res.what = "a@b"
    /\ \E t \in tickets : t.slug = last.target /\ DepPairs(state, t) # {}

CodecOrigins == {"", "_", "g", "gh"}
CodecEndpoints == {"", "h", "@", "x@y", "@h", "h@", "P-2"}

\* Every pair decodes from its message, and no two pairs share a message.
CodecRoundTrip ==
    \A g \in CodecOrigins, e \in CodecEndpoints :
      /\ SplitOnce(DepMessage(g, e), "@") = [found |-> TRUE, left |-> g, right |-> e]
      /\ \A g2 \in CodecOrigins, e2 \in CodecEndpoints :
           DepMessage(g, e) = DepMessage(g2, e2) => g = g2 /\ e = e2

\* C24: for origins without '@' and any endpoints, also ones that contain
\* '@': the set message of a pair decodes, by the split at the first '@',
\* to that pair, so two distinct pairs never have the same message; and
\* right after a successful add_dependency(origin, endpoint) the pair
\* (origin, endpoint) itself is among dependencies().
C24_EncodingRoundTrip ==
    /\ CodecRoundTrip
    /\ \A t \in tickets :
         (/\ last.op = "add_dependency" /\ last.target = t.slug
          /\ last.res.tag = "Ok" /\ OnlyPairs(state, t))
           => /\ last.arg = DepMessage(last.changes.origin, last.changes.endpoint)
              /\ state.records[last.res.rec].message = last.arg
              /\ LastPair(last) \in DepPairs(state, t)
              /\ \A pr \in DepPairs(state, t) :
                   DepMessage(pr[1], pr[2]) = last.arg => pr = LastPair(last)

\* an added pair whose endpoint contains '@', next to another pair
C24_Witness ==
    /\ last.op = "add_dependency" /\ last.res.tag = "Ok"
    /\ last.changes.endpoint = "x@y"
    /\ \E t \in tickets : t.slug = last.target /\ Cardinality(DepPairs(state, t)) >= 2

\* The resolvers handed to resolve_dependencies: a fresh registry, and one
\* with an origin "gh" of each kind registered.
DepResolvers ==
    {DependencyRegistry_new} \cup {Put(DependencyRegistry_new, "gh", i) : i \in OriginImpls}

\* What the remote workspace of a "minimap" endpoint answers; no dependency
\* here names that origin, so one answer stands for all.
DepWorlds == {"Pending"}

\* C25: for each present dependency of P-1, the call of next() that
\* reaches it makes no resolver.status call when the origin is "_" and, the
\* endpoint being a ticket of the workspace, yields Pending while that
\* ticket's state is Open and Complete once it is Closed; for any other
\* origin it makes exactly the call resolver.status(origin, endpoint) and
\* yields the status that call returns.
C25_ResolveDependencies ==
    \A t \in tickets :
       t.slug \in DepHolders =>
         LET w == walk_set_present(state, t.path \o "/dependencies").items IN
         \A reg \in DepResolvers, world \in DepWorlds :
         LET r == Ticket_resolve_dependencies(state, t, reg, world)
         IN /\ Len(r) = Len(w)
            /\ \A k \in 1..Len(w), g \in DepOrigins, e \in DepEndpoints :
                 (state.records[w[k]].message = DepMessage(g, e) /\ ~Contains(g, {"@"}))
                   => IF g = "_"
                        THEN /\ r[k].calls = <<>>
                             /\ \A tt \in tickets :
                                  tt.slug = e
                                    => r[k] = NextSome(g, e,
                                                IF Ticket_state(state, tt).state = "Open"
                                                  THEN "Pending" ELSE "Complete", <<>>)
                      ELSE /\ r[k].calls = <<<<g, e>>>>
                           /\ LET a == DependencyRegistry_status(reg, g, e, world) IN
                              a.tag = "Ok" => r[k] = NextSome(g, e, a.status, <<<<g, e>>>>)

\* P-2 has just been closed while P-1 depends on it and on an endpoint of
\* origin "gh"
C25_Witness ==
    /\ last.op = "set_state" /\ last.arg = "Closed" /\ last.res.tag = "Ok"
    /\ last.target = "P-2"
    /\ \E t \in tickets :
         /\ t.slug = "P-1"
         /\ <<"_", "P-2">> \in DepPairs(state, t)
         /\ \E e \in DepEndpoints : <<"gh", e>> \in DepPairs(state, t)

\* C26: resolve_dependencies yields one item for each present dependency,
\* an Err item when its resolution fails (unknown origin, origin error,
\* local ticket not found, set message without '@'); it never stops before
\* the last present dependency.
C26_ErrorsPerItem ==
    \A t \in tickets, reg \in DepResolvers, world \in Worlds :
       t.slug \in DepHolders =>
         LET r == Ticket_resolve_dependencies(state, t, reg, world)
         IN \A k \in 1..Len(r) : r[k].tag = "Some"

\* C27 as stated: register with slug "_", "minimap" or one containing '@'
\* fails with MalformedOrigin and leaves the registry unchanged, so the
\* entry "minimap" stays the built-in origin and no entry is keyed "_";
\* and status for every slug without an entry returns UnknownOrigin.
C27_RegistryUnknownForAbsent ==
    /\ [](/\ "minimap" \in DOMAIN registry
          /\ registry["minimap"] = "MinimapDependencyOrigin"
          /\ "_" \notin DOMAIN registry
          /\ \A s \in RegistrySlugs, e \in StatusEndpoints, w \in Worlds :
               s \notin DOMAIN registry
                 => DependencyRegistry_status(registry, s, e, w).tag = "UnknownOrigin")
    /\ [][(last'.op = "register"
           /\ (last'.target \in {"_", "minimap"} \/ Contains(last'.target, {"@"})))
            => /\ last'.res = ErrorWith("MalformedOrigin", last'.target)
               /\ registry' = registry]_vars

\* C27, amended: as above, but status returns UnknownOrigin for a slug
\* without an entry other than "_"; for "_", which never has an entry, it
\* returns MalformedOrigin.
C27_Registry ==
    /\ [](/\ "minimap" \in DOMAIN registry
          /\ registry["minimap"] = "MinimapDependencyOrigin"
          /\ "_" \notin DOMAIN registry
          /\ \A s \in RegistrySlugs, e \in StatusEndpoints, w \in Worlds :
               s \notin DOMAIN registry
                 => DependencyRegistry_status(registry, s, e, w)
                      = IF s = "_" THEN StatusError("MalformedOrigin", s)
                        ELSE StatusError("UnknownOrigin", s))
    /\ [][(last'.op = "register"
           /\ (last'.target \in {"_", "minimap"} \/ Contains(last'.target, {"@"})))
            => /\ last'.res = ErrorWith("MalformedOrigin", last'.target)
               /\ registry' = registry]_vars

\* a rejected register("minimap") on a registry that holds a registered
\* origin and lacks another
C27_Witness ==
    /\ last.op = "register" /\ last.target = "minimap"
    /\ last.res.tag = "MalformedOrigin"
    /\ "gh" \in DOMAIN registry /\ "ci" \notin DOMAIN registry

\* The slug is present in meta/projects.
ProjectPresent(st, slug) == Workspace_project(st, slug).tag = "Ok"

\* p.create_project(slug) on a present slug returns the existing record
\* and writes nothing.
SubProjectOnPresent ==
    (last'.op = "create_subproject" /\ ProjectPresent(state, last'.target))
      => /\ state' = state
         /\ last'.res.tag = "Err"
         /\ last'.res.rec = set_find(state, "meta/projects", last'.target).rec

\* C28 as stated: a project created through Workspace::create_project has
\* parent() None, one created through p.create_project(slug) has parent()
\* a handle to p, and this stays so while the project is present;
\* p.create_project(slug) on a present slug returns the existing record and
\* writes nothing.
C28_ParentByCreation ==
    [][/\ (last'.op = "create_project" /\ last'.res.tag = "Ok")
            => Project_parent(state', Project(last'.target)) = Res("None", 0, 0)
       /\ (last'.op = "create_subproject" /\ last'.res.tag = "Ok")
            => Project_parent(state', Project(last'.target)) = Handle(Project(last'.arg))
       /\ \A s \in ProjectSlugs :
            (/\ ProjectPresent(state, s) /\ ProjectPresent(state', s))
              => Project_parent(state', Project(s)) = Project_parent(state, Project(s))
       /\ SubProjectOnPresent]_vars

\* No p.create_project(slug) has written a parent record for the slug.
NeverSubProject(slug) == Get(committed, Project(slug).meta_path \o "/parent", <<>>) = <<>>

\* C28, amended: Workspace::create_project on a slug for which no
\* p.create_project ever succeeded gives a project whose parent() is None;
\* p.create_project(slug) gives a project whose parent() is a handle to p
\* while p is present and NotFound while p is not; parent() of a slug
\* changes only by a p.create_project on it or with the presence of the
\* project it names; and p.create_project(slug) on a present slug returns
\* the existing record and writes nothing.
C28_Parent ==
    [][/\ (last'.op = "create_project" /\ last'.res.tag = "Ok"
           /\ NeverSubProject(last'.target))
            => Project_parent(state', Project(last'.target)) = Res("None", 0, 0)
       /\ (last'.op = "create_subproject" /\ last'.res.tag = "Ok")
            => Project_parent(state', Project(last'.target))
                 = IF ProjectPresent(state', last'.arg) THEN Handle(Project(last'.arg))
                   ELSE Workspace_project(state', last'.arg)
       /\ \A s \in ProjectSlugs :
            ~(last'.op = "create_subproject" /\ last'.target = s /\ last'.res.tag = "Ok")
              => LET old == Project_parent(state, Project(s))
                     new == Project_parent(state', Project(s))
                 IN \/ new = old
                    \/ /\ old.tag = "Ok" /\ new.tag = "NotFound"
                       /\ last'.op = "delete_project" /\ last'.target = old.handle.slug
                    \/ /\ old.tag = "NotFound" /\ new = Handle(Project(last'.target))
                       /\ last'.op \in {"create_project", "create_subproject"}
       /\ SubProjectOnPresent]_vars

\* "Q-7" was created through P.create_project and P then deleted
C28_Witness ==
    /\ last.op = "delete_project" /\ last.target = "P" /\ last.res.tag = "Ok"
    /\ Project_parent(state, Project("Q-7")).tag = "NotFound"
    /\ ProjectPresent(state, "Q-7")

\* The ticket a call was made on.
TicketOf(slug) == CHOOSE t \in tickets : t.slug = slug

\* C29: a set_name / set_description (of a workspace or a project) or
\* set_title call that succeeds appends
\* a new record whose message is exactly the text given and which the
\* getter then returns, whatever the current message is: setting the text
\* the field already has leaves two records with distinct ids and the same
\* message, and the getter returns the second.
C29_SettersAppend ==
    [][(last'.op \in FieldOps /\ last'.res.tag = "Ok")
         => LET t == TicketOf(last'.target)
                p == Project(last'.target)
                c == FieldCollection(last'.op, p, t)
                old == FieldRead(state, last'.op, p, t)
                new == FieldRead(state', last'.op, p, t)
            IN /\ new = last'.res.rec
               /\ new \notin DOMAIN state.records
               /\ new \in DOMAIN state'.records
               /\ state'.records[new].message = last'.arg
               /\ Len(Walk(state', c)) = Len(Walk(state, c)) + 1
               /\ (old # 0 /\ state.records[old].message = last'.arg)
                    => /\ old # new
                       /\ state'.records[old].message = state'.records[new].message
                       /\ Walk(state', c)[1].id = new
                       /\ Walk(state', c)[2].id = old]_vars

\* the name was set to "a" twice in a row
C29_Witness ==
    /\ last.op = "set_name" /\ last.res.tag = "Ok" /\ last.arg = "a"
    /\ Len(Walk(state, "meta/workspace/name")) >= 2
    /\ Walk(state, "meta/workspace/name")[2].message = "a"
    /\ Workspace_name(state) = last.res.rec

\* The collections looked at: the two the calls write and one no call names.
WalkedCollections == LogCollections \cup Collections \cup {"none"}

\* The ids the successful commits to a collection returned, oldest first.
CommittedTo(collection) == Get(committed, collection, <<>>)

\* C30: a collection nothing was ever committed to has an empty walk and
\* latest None; otherwise latest is the first element of walk, and that is
\* the record the most recent successful commit to the collection returned.
C30_LatestIsNewestCommit ==
    \A c \in WalkedCollections :
      IF CommittedTo(c) = <<>>
        THEN Walk(state, c) = <<>> /\ Latest(state, c) = 0
      ELSE /\ Walk(state, c) # <<>>
           /\ Latest(state, c) = Walk(state, c)[1].id
           /\ Walk(state, c)[1].id = CommittedTo(c)[Len(CommittedTo(c))]

\* two commits to "log" succeeded, a third call failed, nothing went to "coll"
C30_Witness ==
    /\ Len(CommittedTo("log")) = 2
    /\ CommittedTo("coll") = <<>>
    /\ last.res.tag \in {"NotPushed", "PushFailed"}
    /\ Latest(state, "log") = CommittedTo("log")[2]
    /\ Walk(state, "coll") = <<>>

\* The operations of the records of one message, oldest first.
OpsOf(st, collection, message) ==
    LET Same(r) == r.message = message
        w == SelectSeq(Reverse(WalkSet(st, collection)), Same)
    IN [k \in 1..Len(w) |-> w[k].op]

\* C35: when only set_add and set_del are called on a collection, the
\* records of any one message alternate Add, Del, Add, ... from the oldest
\* on, starting with an Add.
C35_AddDelAlternate ==
    \A c \in Collections, m \in CheckedMessages :
       \A k \in 1..Len(OpsOf(state, c, m)) :
          OpsOf(state, c, m)[k] = IF k % 2 = 1 THEN "Add" ELSE "Del"

\* "a" was added, deleted and added again, after a delete of the absent "b"
\* that wrote nothing
C35_Witness ==
    /\ OpsOf(state, "coll", "a") = <<"Add", "Del", "Add">>
    /\ OpsOf(state, "coll", "b") = <<>>
    /\ last.op = "set_add" /\ last.res.tag = "Ok"

\* The ids in a project's tickets set, deleted or not, as numbers.
TicketSetIds(st, slug) ==
    LET w == WalkSet(st, TicketsPath(slug)) IN {ParseU64(w[i].message) : i \in 1..Len(w)}

\* The latest ticket_counter value of a project, 0 without a record.
LatestCounter(st, slug) ==
    LET v == CounterValues(st, slug) IN IF v = <<>> THEN 0 ELSE v[Len(v)]

\* C34: on one handle, after any calls (create_ticket calls that failed at
\* either push included), every id in a project's tickets set is at most
\* the latest ticket_counter value, the set holds no id twice, and no
\* create_ticket call has failed with Malformed.
C34_IdsBelowCounter ==
    /\ \A s \in ProjectSlugs :
         /\ \A n \in TicketSetIds(state, s) : n # ParseError /\ n <= LatestCounter(state, s)
         /\ Len(WalkSet(state, TicketsPath(s))) = Cardinality(TicketSetIds(state, s))
    /\ last.op = "create_ticket" => last.res.tag # "Malformed"

\* a ticket created right after a call that advanced the counter and then
\* failed at the tickets push
C34_Witness ==
    \E s \in ProjectSlugs :
        /\ last.op = "create_ticket" /\ last.target = s /\ last.res.tag = "Ok"
        /\ LatestCounter(state, s) = 2
        /\ TicketSetIds(state, s) = {2}

(***************************************************************************)
(* Properties of the Git backend                                           *)
(***************************************************************************)
GitCollections == LogCollections \cup Collections

GitCommitOps == {"commit", "set_add_unchecked", "set_del_unchecked"}

\* The ref of a collection in the local repository at a directory.
LocalRef(g, dir, collection) == Get(g.clones[dir].refs, RefHead(collection), NoOid)

OriginRef(g, collection) == Get(g.origin.refs, RefHead(collection), NoOid)

\* C31: the local ref of a collection changes only in a commit on a handle
\* of that repository, to that collection, whose push the callback reported
\* as successful, and then it is the pushed commit, which is origin's ref
\* too; a commit that fails leaves every local ref, walk and latest as they
\* were; so a local head is always a commit origin has accepted on that
\* branch.
C31_LocalRefFollowsPush ==
    /\ [](\A dir \in DOMAIN git.clones, c \in GitCollections :
             LocalRef(git, dir, c) # NoOid
               => /\ OriginRef(git, c) # NoOid
                  /\ LocalRef(git, dir, c) \in Reachable(git, {OriginRef(git, c)}))
    /\ [][/\ \A dir \in (DOMAIN git.clones) \cap (DOMAIN git'.clones), c \in GitCollections :
               LocalRef(git', dir, c) # LocalRef(git, dir, c)
                 => /\ last'.op \in GitCommitOps
                    /\ last'.res.tag = "Ok"
                    /\ last'.outcomes = <<"reported">>
                    /\ last'.changes.collection = c
                    /\ git.handles[last'.target].dir = dir
                    /\ LocalRef(git', dir, c) = last'.res.rec
                    /\ OriginRef(git', c) = last'.res.rec
                    /\ last'.res.rec \notin 1..Len(git.commits)
          /\ (last'.op \in GitCommitOps /\ last'.res.tag # "Ok")
               => /\ \A dir \in DOMAIN git.clones : git'.clones[dir].refs = git.clones[dir].refs
                  /\ git'.origin = git.origin
                  /\ \A h \in DOMAIN git.handles, c \in GitCollections :
                       /\ GitRemote_walk(git', h, c) = GitRemote_walk(git, h, c)
                       /\ GitLatest(git', h, c) = GitLatest(git, h, c)]_vars

\* "c" has just had a commit rejected that "a" had pushed before it
C31_Witness ==
    /\ last.op = "commit" /\ last.target = "c" /\ last.res.tag = "PushFailed"
    /\ OriginRef(git, "log") # NoOid
    /\ "a" \in DOMAIN git.handles
    /\ GitLatest(git, "a", "log") = OriginRef(git, "log")
    /\ GitLatest(git, "c", "log") = NoOid

\* Origin would take a commit built on the local head of the handle: it has
\* no ref for the collection, or its ref is the local head or an ancestor.
WouldFastForward(g, h, collection) ==
    LET theirs == OriginRef(g, collection)
        mine == LocalRef(g, g.handles[h].dir, collection)
    IN theirs = NoOid \/ (mine # NoOid /\ theirs \in Reachable(g, {mine}))

\* C36: a Git commit returns NotPushed exactly when its push completed
\* without the callback reporting the ref, PushFailed exactly when the
\* callback reported origin's refusal, and a record exactly when it
\* reported success; a call builds one commit and pushes it once: origin
\* moves at most to that commit, and not at all when the call fails.
C36_PushOutcome ==
    [][last'.op \in GitCommitOps =>
         LET o == last'.outcomes[1]
             c == last'.changes.collection
             ff == WouldFastForward(git, last'.target, c)
         IN /\ last'.res.tag = "NotPushed" <=> o = "unreported"
            /\ last'.res.tag = "PushFailed" <=> (o = "reported" /\ ~ff)
            /\ last'.res.tag = "Ok" <=> (o = "reported" /\ ff)
            /\ last'.res.tag = "Git" <=> o = "error"
            /\ Len(git'.commits) = Len(git.commits) + 1
            /\ last'.res.tag = "Ok"
                 => /\ last'.res.rec = Len(git'.commits)
                    /\ git'.origin.refs = Put(git.origin.refs, RefHead(c), last'.res.rec)
            /\ last'.res.tag # "Ok" => git'.origin = git.origin]_vars

\* a push went unreported on a handle that had committed to the collection
\* before
C36_Witness ==
    /\ last.op \in GitCommitOps /\ last.res.tag = "NotPushed"
    /\ GitLatest(git, last.target, last.changes.collection) # NoOid

SentinelNames == {"meta/+", "meta/-"}

\* A commit made by upsert_operator_tag: no parent, a tag name for message.
IsSentinel(g, oid) == g.commits[oid].parents = <<>> /\ g.commits[oid].message \in SentinelNames

\* The commits of a collection from a head back along the first parents
\* that are not sentinels.
RECURSIVE HeadChain(_, _)
HeadChain(g, oid) ==
    IF oid = NoOid \/ IsSentinel(g, oid) THEN <<>>
    ELSE <<oid>> \o HeadChain(g, IF g.commits[oid].parents = <<>> THEN NoOid
                                 ELSE g.commits[oid].parents[1])

\* The sentinel the local repository of a handle has tagged with a name.
TaggedIn(g, h, name) == Get(RepoOf(g, h).refs, RefTag(name), NoOid)

\* One entry per commit of the chain, with the operation its sentinel
\* parent stands for.
SetEntries(g, h, collection) ==
    LET chain == HeadChain(g, LocalRef(g, g.handles[h].dir, collection))
    IN [k \in 1..Len(chain) |->
          [id |-> chain[k],
           op |-> IF \E i \in 1..Len(g.commits[chain[k]].parents) :
                       g.commits[chain[k]].parents[i] = TaggedIn(g, h, "meta/+")
                    THEN "Add" ELSE "Del"]]

\* walk_set returns one (record, op) entry per set commit and no sentinel
\* commit.
WalkSetOnePerSetCommit ==
    \A h \in DOMAIN git.handles, c \in Collections :
       LET w == GitRemote_walk_set(git, h, c) IN
       /\ w = SetEntries(git, h, c)
       /\ \A k \in 1..Len(w) : ~IsSentinel(git, w[k].id)

\* The sentinels tagged in the repository of a handle.
OwnSentinels(g, h) == {TaggedIn(g, h, name) : name \in SentinelNames}

\* walk_set returns one item per commit reachable from the head that is
\* not a sentinel of the handle: the entry with the operation of its
\* sentinel parent, or an error when no parent is a sentinel of the handle.
WalkSetSkipsOwnSentinels ==
    \A h \in DOMAIN git.handles, c \in Collections :
       LET w == GitRemote_walk_set(git, h, c)
           head == LocalRef(git, git.handles[h].dir, c)
           seen == IF head = NoOid THEN {} ELSE Reachable(git, {head})
       IN /\ {w[k].id : k \in 1..Len(w)} = seen \ OwnSentinels(git, h)
          /\ \A j, k \in 1..Len(w) : w[j].id = w[k].id => j = k
          /\ \A k \in 1..Len(w) :
               LET ps == git.commits[w[k].id].parents
                   has(name) == \E i \in 1..Len(ps) : ps[i] = TaggedIn(git, h, name)
               IN /\ w[k].op = "Add" => has("meta/+")
                  /\ w[k].op = "Del" => has("meta/-")
                  /\ w[k].op = "Malformed" <=> ~(has("meta/+") \/ has("meta/-"))

\* The parents of the commit the last call made.
MadeParents(g, c) == g.commits[c.res.rec].parents

MissingTags(g, dir) == {name \in SentinelNames : RefTag(name) \notin DOMAIN g.clones[dir].refs}

\* The ids a handle caches are the targets of the two tags of its repository.
CachedAreTagged ==
    \A h \in DOMAIN git.handles :
       /\ git.handles[h].set_add_oid = TaggedIn(git, h, "meta/+")
       /\ git.handles[h].set_del_oid = TaggedIn(git, h, "meta/-")
       /\ git.handles[h].set_add_oid # NoOid
       /\ git.handles[h].set_del_oid # NoOid

\* C38: GitRemote::open looks up the tags meta/+ and meta/-; for each one
\* that is absent it creates a parentless commit with the tag name as
\* message and tags it, and when one was created it pushes both tag refs to
\* origin; when both exist it creates and pushes nothing; the ids cached in
\* the handle are the targets of the two tags and never change afterwards.
C38_OpenBootstrapsSentinels ==
    /\ []CachedAreTagged
    /\ [][/\ \A h \in DOMAIN git.handles :
                h \in DOMAIN git'.handles /\ git'.handles[h] = git.handles[h]
          /\ last'.op = "open_tags"
               => LET dir == git.opening[last'.target].dir
                      missing == MissingTags(git, dir)
                  IN /\ git'.origin = git.origin
                     /\ MissingTags(git', dir) = {}
                     /\ \A name \in SentinelNames \ missing :
                          git'.clones[dir].refs[RefTag(name)] = git.clones[dir].refs[RefTag(name)]
                     /\ \A name \in missing :
                          LET t == git'.clones[dir].refs[RefTag(name)]
                          IN /\ git'.commits[t] = [message |-> name, parents |-> <<>>]
                             /\ t \in git'.clones[dir].objects
                     /\ Len(git'.commits) <= Len(git.commits) + Cardinality(missing)
                     /\ missing = {} => /\ git'.commits = git.commits
                                        /\ git'.clones = git.clones
                                        /\ last'.res.tag = "Ok"
                                        /\ last'.target \in DOMAIN git'.handles
                     /\ missing # {} => /\ last'.res.tag = "Pending"
                                        /\ last'.target \in DOMAIN git'.opening
                                        /\ git'.opening[last'.target].step = "tags"
          /\ (last'.op = "open_push" /\ last'.res.tag = "Ok")
               => LET dir == git.opening[last'.target].dir
                  IN /\ git'.commits = git.commits
                     /\ git'.clones = git.clones
                     /\ last'.target \in DOMAIN git'.handles
                     /\ \A name \in SentinelNames :
                          /\ RefTag(name) \in DOMAIN git'.origin.refs
                          /\ git'.origin.refs[RefTag(name)]
                               = IF RefTag(name) \in DOMAIN git.origin.refs
                                   THEN git.origin.refs[RefTag(name)]
                                 ELSE git.clones[dir].refs[RefTag(name)]]_vars

\* an open created both tags and pushed them to an origin that had none
C38_Witness ==
    /\ last.op = "open_push" /\ last.res.tag = "Ok"
    /\ last.target \in DOMAIN git.handles
    /\ RefTag("meta/+") \in DOMAIN git.origin.refs
    /\ git.origin.refs[RefTag("meta/+")] = git.handles[last.target].set_add_oid
    /\ git.origin.refs[RefTag("meta/-")] = git.handles[last.target].set_del_oid
    /\ git.commits[git.handles[last.target].set_add_oid].message = "meta/+"

\* C40: any two handles opened against the same remote from distinct local
\* clones, also when opened concurrently against a remote without sentinel
\* tags, cache the meta/+ and meta/- commit ids that the remote's tags
\* have; so a set record written through one handle is read by the other
\* through walk_set with its Add/Del operation and never as Malformed.
C40_SameSentinels ==
    /\ \A h \in DOMAIN git.handles :
          /\ RefTag("meta/+") \in DOMAIN git.origin.refs
               => git.handles[h].set_add_oid = git.origin.refs[RefTag("meta/+")]
          /\ RefTag("meta/-") \in DOMAIN git.origin.refs
               => git.handles[h].set_del_oid = git.origin.refs[RefTag("meta/-")]
    /\ \A h1, h2 \in DOMAIN git.handles :
          /\ git.handles[h1].set_add_oid = git.handles[h2].set_add_oid
          /\ git.handles[h1].set_del_oid = git.handles[h2].set_del_oid
    /\ \A h \in DOMAIN git.handles, c \in Collections :
          LET w == GitRemote_walk_set(git, h, c)
          IN \A k \in 1..Len(w) : w[k].op # "Malformed"

\* What a handle sees of the log collections: the local refs, walk and latest.
GitView(g, h) ==
    [c \in LogCollections |->
       [ref |-> LocalRef(g, g.handles[h].dir, c),
        walk |-> GitRemote_walk(g, h, c),
        latest |-> GitLatest(g, h, c)]]

Rejected(h, c) ==
    /\ last.op = "commit" /\ last.target = h /\ last.changes.collection = c
    /\ last.res.tag = "PushFailed"

\* The handle has just had a commit to the collection accepted.
Accepted(h, c) ==
    /\ last.op = "commit" /\ last.target = h /\ last.changes.collection = c
    /\ last.res.tag = "Ok"

\* C39: when a handle's commit to a collection is rejected because another
\* writer pushed to it first, and the handle goes on retrying (there is
\* room for a retry), a later commit of the handle to that collection
\* succeeds: the handle is not left with every later commit rejected.
C39_RetrySucceeds ==
    \A c \in LogCollections :
       (Rejected(RetryingHandle, c) /\ RetryRoom) ~> Accepted(RetryingHandle, c)

\* The messages of the records of a collection as origin has them, newest
\* first.
OriginMessages(g, collection) ==
    LET chain == HeadChain(g, OriginRef(g, collection))
    IN [k \in 1..Len(chain) |-> g.commits[chain[k]].message]

NoRepeat(seq) == \A i, j \in 1..Len(seq) : seq[i] = seq[j] => i = j

\* C32: when two handles against the same remote run create_ticket on the
\* same project with their steps interleaved, one of them wins each id:
\* the two calls never both return a ticket with the same id, and the
\* counter never records the same value twice.
C32_OneWinnerPerId ==
    /\ NoRepeat(Get(issued, GitProject.slug, <<>>))
    /\ NoRepeat(OriginMessages(git, GitCounterPath))

====
